---- MODULE Spec2Model ----
(***************************************************************************)
(* State-machine model of MapView (src/src/client/mapview.cpp): the camera, *)
(* the visible-floor computation, the visible-tiles cache and the frame     *)
(* that draw() emits.                                                       *)
(***************************************************************************)
EXTENDS Integers, Sequences, FiniteSets, TLC

(***************************************************************************)
(* Program constants.  The Otc:: constants and UINT8_MAX are declared in    *)
(* headers that are not part of src/.                                       *)
(***************************************************************************)
MAX_Z == 15
SEA_FLOOR == 7
UNDERGROUND_FLOOR == 8
AWARE_UNDEGROUND_FLOOR_RANGE == 2
TILE_PIXELS == 32
UINT8_MAX == 255
UINT16_MAX == 65535
NEAR_VIEW_AREA == 32 * 32
MID_VIEW_AREA == 64 * 64
FAR_VIEW_AREA == 128 * 128

NEAR_VIEW == 0
MID_VIEW == 1
FAR_VIEW == 2
HUGE_VIEW == 3

Floors == 0..MAX_Z

Max(a, b) == IF a >= b THEN a ELSE b
Min(a, b) == IF a <= b THEN a ELSE b

\* int32 division and remainder of C++: both truncate toward zero
TruncDiv(a, b) == IF a >= 0 THEN a \div b ELSE -((-a) \div b)

\* Mutant: the remainder takes the sign of the divisor.
FlooredRem(a, b) == a % b

TruncRem(a, b) == a - b * TruncDiv(a, b)

(***************************************************************************)
(* Position (position.h, not under src/).  A default-constructed Position   *)
(* is the invalid one.                                                      *)
(***************************************************************************)
Pos(px, py, pz) == [x |-> px, y |-> py, z |-> pz]

InvalidPosition == Pos(UINT16_MAX, UINT16_MAX, UINT8_MAX)

isValid(p) == ~(p.x = UINT16_MAX /\ p.y = UINT16_MAX /\ p.z = UINT8_MAX)

\* Position::translated(dx, dy): x and y are 16-bit unsigned.
translated(p, dx, dy) ==
    Pos((p.x + dx) % (UINT16_MAX + 1), (p.y + dy) % (UINT16_MAX + 1), p.z)

\* Position::coveredUp(n): one floor up is one tile south-east; the position
\* is left alone, and false is returned, when the result leaves the map.
coveredUp(p, n) ==
    LET nx == p.x + n
        ny == p.y + n
        nz == p.z - n
        ok == /\ nx >= 0 /\ nx <= UINT16_MAX
              /\ ny >= 0 /\ ny <= UINT16_MAX
              /\ nz >= 0 /\ nz <= MAX_Z
    IN  [ok |-> ok, pos |-> IF ok THEN Pos(nx, ny, nz) ELSE p]

\* Position::up(n)
up(p, n) ==
    LET nz == p.z - n
        ok == nz >= 0 /\ nz <= MAX_Z
    IN  [ok |-> ok, pos |-> IF ok THEN Pos(p.x, p.y, nz) ELSE p]

(***************************************************************************)
(* The world grid (g_map), read only from MapView.  A tile is described by  *)
(* the answers it gives to the queries MapView makes.                       *)
(***************************************************************************)
NoTile == 0

Tile(dr, gr, bo, bt, li, cov, lf, lb, lk) ==
    [isDrawable |-> dr, hasGround |-> gr, hasGroundBorderToDraw |-> bo,
     hasBottomOrTopToDraw |-> bt, hasLight |-> li, coveredFor |-> cov,
     limitsFree |-> lf, limitsBlocked |-> lb, isLookPossible |-> lk]

\* 1 open ground, 2 ground hidden under opaque tiles, 3 hidden but lit,
\* 4 roof (limits the view, blocks the look), 5 empty tile (nothing to draw),
\* 6 wall with a border and a top item, hidden only when every floor from 0 is drawn,
\* 7 window: limits the view only for a blocked look.
TileKinds ==
    << Tile(TRUE,  TRUE,  FALSE, FALSE, FALSE, {},     FALSE, FALSE, TRUE),
       Tile(TRUE,  TRUE,  TRUE,  TRUE,  FALSE, Floors, FALSE, FALSE, TRUE),
       Tile(TRUE,  TRUE,  FALSE, TRUE,  TRUE,  Floors, FALSE, FALSE, TRUE),
       Tile(TRUE,  TRUE,  TRUE,  FALSE, FALSE, {},     TRUE,  TRUE,  FALSE),
       Tile(FALSE, FALSE, FALSE, FALSE, FALSE, {},     FALSE, FALSE, TRUE),
       Tile(TRUE,  FALSE, TRUE,  TRUE,  FALSE, {0},    FALSE, FALSE, FALSE),
       Tile(TRUE,  TRUE,  FALSE, FALSE, FALSE, {},     TRUE,  FALSE, TRUE) >>

KindIds == 1..Len(TileKinds)

VARIABLES
    world,                              \* g_map: position -> tile kind
    creaturePosition,                   \* live position of each creature
    m_follow,
    m_followingCreature,
    m_customCameraPosition,
    m_lastCameraPosition,
    m_lockedFirstVisibleFloor,
    m_multifloor,
    m_viewMode,
    m_autoViewMode,
    m_renderScale,
    m_tileSize,
    m_visibleDimension,
    m_drawDimension,
    m_virtualCenterOffset,
    maxTextureSize,                     \* g_graphics.getMaxTextureSize()
    m_drawLights,
    m_mustUpdateVisibleTilesCache,
    m_mustUpdateVisibleCreaturesCache,
    m_cachedFirstVisibleFloor,
    m_cachedLastVisibleFloor,
    m_floorMin,
    m_floorMax,
    m_cachedVisibleTiles,
    frame,                              \* what the last draw() did
    invalidated,                        \* a request arrived since the last completed rebuild
    skipped,                            \* a dirty draw() was skipped since the last completed rebuild
    cameraMode,                         \* the last followCreature or setCameraPosition call
    builtFrom,                          \* the inputs of the last completed rebuild
    calcResult,                         \* the floors the last calc*VisibleFloor() call returned
    m_visibleCenterOffset,
    m_optimizedSize,
    m_rectDimension,
    m_scaleFactor,                      \* a fraction <<numerator, denominator>>
    m_awareRange,
    m_rectCache,
    m_moveOffset,
    m_shadowFloorIntensity,
    m_shader,
    m_nextShader,
    m_shaderSwitchDone,
    m_fadeInTime,
    m_fadeOutTime,
    m_fadeTimer,                        \* m_fadeTimer.timeElapsed()
    hook,                               \* what the last run of the before-draw hook did
    fade,                               \* the fade the last effective setShader call started
    shaderCall,                         \* the last call, when it was a setShader call
    requested,                          \* the shader of the last setShader call, and the calls so far
    moved,                              \* the move() calls since the camera was fixed
    followed,                           \* followCreature() was called and no frame had a valid camera since
    sweep,                              \* the cells the diagonal loops have visited
    geometryCall                        \* the last call, when it was a geometry operation that gave up

envVars == <<world, creaturePosition, maxTextureSize>>
cameraVars == <<m_follow, m_followingCreature, m_customCameraPosition>>
geometryVars == <<m_multifloor, m_viewMode, m_autoViewMode, m_renderScale, m_tileSize,
                  m_visibleDimension, m_drawDimension, m_virtualCenterOffset>>
cacheVars == <<m_cachedFirstVisibleFloor, m_cachedLastVisibleFloor, m_floorMin, m_floorMax,
               m_cachedVisibleTiles>>
flagVars == <<m_mustUpdateVisibleTilesCache, m_mustUpdateVisibleCreaturesCache>>
obsVars == <<frame, invalidated, skipped, cameraMode, builtFrom, calcResult>>

extentVars == <<m_visibleCenterOffset, m_optimizedSize, m_rectDimension, m_scaleFactor,
                m_awareRange>>
shaderVars == <<m_shader, m_nextShader, m_shaderSwitchDone, m_fadeInTime, m_fadeOutTime,
                m_fadeTimer, hook, fade, shaderCall, requested>>
restVars == <<m_moveOffset, moved, m_shadowFloorIntensity, shaderVars, sweep, followed>>

vars == <<envVars, cameraVars, m_lastCameraPosition, m_lockedFirstVisibleFloor, geometryVars,
          m_drawLights, cacheVars, flagVars, obsVars, extentVars, m_rectCache, restVars,
          geometryCall>>

\* g_map.getTile(pos)
getTile(pos) == IF pos \in DOMAIN world THEN world[pos] ELSE NoTile

\* g_map.isLookPossible(pos)
isLookPossible(pos) == getTile(pos) # NoTile /\ TileKinds[getTile(pos)].isLookPossible

\* Tile::limitsFloorsView(isFreeView) of the tile at pos, if there is one
limitsFloorsView(pos, isFreeView) ==
    /\ getTile(pos) # NoTile
    /\ IF isFreeView THEN TileKinds[getTile(pos)].limitsFree
                     ELSE TileKinds[getTile(pos)].limitsBlocked

(***************************************************************************)
(* The camera.                                                              *)
(***************************************************************************)
NullCreature == "null"
Creatures == {"c1"}

\* Creature::getPosition() through the followed reference: the live position,
\* the invalid position when the reference is gone.
getCreaturePosition(c) == IF c \in Creatures THEN creaturePosition[c] ELSE InvalidPosition

\* isFollowingCreature() is declared in mapview.h; as the specification has it,
\* the view follows from followCreature() until setCameraPosition().
isFollowingCreature == m_follow

getCameraPosition ==
    IF isFollowingCreature THEN getCreaturePosition(m_followingCreature)
    ELSE m_customCameraPosition

(***************************************************************************)
(* The visible floor range.                                                 *)
(***************************************************************************)
ToUint8(v) == v % (UINT8_MAX + 1)

\* stdext::clamp<int>
clamp(v, lo, hi) == Max(lo, Min(v, hi))

\* The while loop of calcFirstVisibleFloor: walk up from pos, physically
\* (upperPos) and along the covering diagonal (coveredPos), until a tile
\* limits the view, the top is reached or firstFloor is passed.
RECURSIVE WalkUp(_, _, _, _)
WalkUp(upperPos, coveredPos, firstFloor, lookPossible) ==
    LET c == coveredUp(coveredPos, 1)
        u == up(upperPos, 1)
    IN  IF ~c.ok THEN firstFloor
        ELSE IF ~u.ok THEN firstFloor
        ELSE IF ~(u.pos.z >= firstFloor) THEN firstFloor
        ELSE IF limitsFloorsView(u.pos, ~lookPossible) THEN ToUint8(u.pos.z + 1)
        ELSE IF limitsFloorsView(c.pos, lookPossible) THEN ToUint8(c.pos.z + 1)
        ELSE WalkUp(u.pos, c.pos, firstFloor, lookPossible)

\* The 3x3 cells around the camera in loop order: ix outer, iy inner.
NeighbourCells ==
    << <<-1, -1>>, <<-1, 0>>, <<-1, 1>>, <<0, -1>>, <<0, 0>>, <<0, 1>>,
       <<1, -1>>, <<1, 0>>, <<1, 1>> >>

Abs(v) == IF v < 0 THEN -v ELSE v

\* Mutant: the diagonal neighbours are scanned too.
ScanCellWithDiagonals(cameraPosition, cell, firstFloor) ==
    LET ix == cell[1]
        iy == cell[2]
        pos == translated(cameraPosition, ix, iy)
    IN  IF (ix = 0 /\ iy = 0) \/ isLookPossible(pos)
        THEN WalkUp(pos, pos, firstFloor, isLookPossible(pos))
        ELSE firstFloor

\* The body of the two for loops for one cell.
ScanCell(cameraPosition, cell, firstFloor) ==
    LET ix == cell[1]
        iy == cell[2]
        pos == translated(cameraPosition, ix, iy)
    IN  IF (ix = 0 /\ iy = 0) \/ (Abs(ix) # Abs(iy) /\ isLookPossible(pos))
        THEN WalkUp(pos, pos, firstFloor, isLookPossible(pos))
        ELSE firstFloor

\* The two for loops: both stop as soon as firstFloor reaches the camera floor.
RECURSIVE ScanCells(_, _, _)
ScanCells(cameraPosition, i, firstFloor) ==
    IF i > Len(NeighbourCells) \/ ~(firstFloor < cameraPosition.z) THEN firstFloor
    ELSE ScanCells(cameraPosition, i + 1, ScanCell(cameraPosition, NeighbourCells[i], firstFloor))

\* firstFloor before the scan: 0, or the underground limit below sea level.
BaseFirstFloor(cameraPosition) ==
    IF cameraPosition.z > SEA_FLOOR
    THEN Max(ToUint8(cameraPosition.z - AWARE_UNDEGROUND_FLOOR_RANGE), UNDERGROUND_FLOOR)
    ELSE 0

calcFirstVisibleFloor ==
    LET cameraPosition == getCameraPosition
        z == IF m_lockedFirstVisibleFloor # UINT8_MAX THEN m_lockedFirstVisibleFloor
             ELSE IF ~isValid(cameraPosition) THEN SEA_FLOOR
             ELSE IF ~m_multifloor THEN cameraPosition.z
             ELSE ScanCells(cameraPosition, 1, BaseFirstFloor(cameraPosition))
    IN  clamp(z, 0, MAX_Z)

\* z of calcLastVisibleFloor before the floor lock is applied
LastFloorOfCamera(cameraPosition) ==
    IF isValid(cameraPosition) /\ cameraPosition.z > SEA_FLOOR
    THEN ToUint8(cameraPosition.z + AWARE_UNDEGROUND_FLOOR_RANGE)
    ELSE SEA_FLOOR

\* Mutant: the last floor is not raised to the floor lock.
LastFloorIgnoringLock(z) == z

\* the floor lock's part of calcLastVisibleFloor
LastFloorWithLock(z) ==
    IF m_lockedFirstVisibleFloor # UINT8_MAX THEN ToUint8(Max(m_lockedFirstVisibleFloor, z))
    ELSE z

calcLastVisibleFloor ==
    IF ~m_multifloor THEN calcFirstVisibleFloor
    ELSE clamp(LastFloorWithLock(LastFloorOfCamera(getCameraPosition)), 0, MAX_Z)

(***************************************************************************)
(* The rebuild of the visible-tiles cache (updateVisibleTilesCache).        *)
(***************************************************************************)
\* A 32-bit unsigned value is held as the int32 with the same bits, so an
\* unsigned comparison orders the negative patterns above the others.
U32Max(a, b) ==
    IF (a < 0) = (b < 0) THEN Max(a, b)
    ELSE IF a < 0 THEN a ELSE b

\* const uint32 advance = std::max<uint32>(diagonal - m_drawDimension.height(), 0)
Advance(diagonal, height) == U32Max(diagonal - height, 0)

\* The cells <<ix, iy>> the inner for loop visits on one diagonal, in order:
\* from (advance, diagonal - advance), --iy and ++ix while iy >= 0 and ix < width.
DiagonalCells(diagonal, width, height) ==
    LET ix0 == Advance(diagonal, height)
        iy0 == diagonal - Advance(diagonal, height)
        n == IF iy0 >= 0 /\ ix0 < width THEN Min(iy0 + 1, width - ix0) ELSE 0
    IN  [k \in 1..n |-> <<ix0 + (k - 1), iy0 - (k - 1)>>]

\* tilePos of a cell on floor iz: translated from the camera, then covered up
\* cameraPosition.z - iz floors (left where it is when that leaves the map).
CellPosition(cameraPosition, cell, iz) ==
    coveredUp(translated(cameraPosition,
                         cell[1] - m_virtualCenterOffset[1],
                         cell[2] - m_virtualCenterOffset[2]),
              cameraPosition.z - iz).pos

\* if(const TilePtr& tile = g_map.getTile(tilePos)) with tile->isDrawable()
IsDrawableTile(pos) == getTile(pos) # NoTile /\ TileKinds[getTile(pos)].isDrawable

\* The drawable tiles one diagonal of floor iz finds, in order.
DiagonalTiles(cameraPosition, diagonal, iz) ==
    LET cells == DiagonalCells(diagonal, m_drawDimension[1], m_drawDimension[2])
        found == [k \in 1..Len(cells) |-> CellPosition(cameraPosition, cells[k], iz)]
    IN  SelectSeq(found, IsDrawableTile)

\* The drawable tiles of floor iz in sweep order, cell by cell as the loops
\* go: diagonals 0 .. numDiagonals - 1.
RECURSIVE SweepTilesByLoop(_, _, _)
SweepTilesByLoop(cameraPosition, diagonal, iz) ==
    IF diagonal >= m_drawDimension[1] + m_drawDimension[2] - 1 THEN <<>>
    ELSE DiagonalTiles(cameraPosition, diagonal, iz)
         \o SweepTilesByLoop(cameraPosition, diagonal + 1, iz)

\* The same sequence computed from the world's tiles instead of the cells.
\* CellOf is the cell whose tilePos on floor iz is pos when no coordinate
\* wraps; IsSwept tells whether the loops reach that cell and find pos there.
CellOf(cameraPosition, pos, iz) ==
    << pos.x - cameraPosition.x - (cameraPosition.z - iz) + m_virtualCenterOffset[1],
       pos.y - cameraPosition.y - (cameraPosition.z - iz) + m_virtualCenterOffset[2] >>

IsSwept(cameraPosition, pos, iz) ==
    LET cell == CellOf(cameraPosition, pos, iz)
        diagonal == cell[1] + cell[2]
        cells == DiagonalCells(diagonal, m_drawDimension[1], m_drawDimension[2])
        k == cell[1] - Advance(diagonal, m_drawDimension[2]) + 1
    IN  /\ diagonal >= 0
        /\ diagonal < m_drawDimension[1] + m_drawDimension[2] - 1
        /\ k >= 1
        /\ k <= Len(cells)
        /\ CellPosition(cameraPosition, cells[k], iz) = pos

\* pos is swept before other: on an earlier diagonal, or earlier on the same one.
SweptBefore(cameraPosition, pos, other, iz) ==
    LET a == CellOf(cameraPosition, pos, iz)
        b == CellOf(cameraPosition, other, iz)
    IN  \/ a[1] + a[2] < b[1] + b[2]
        \/ a[1] + a[2] = b[1] + b[2] /\ a[1] < b[1]

RECURSIVE InSweepOrder(_, _, _)
InSweepOrder(cameraPosition, tiles, iz) ==
    IF tiles = {} THEN <<>>
    ELSE LET next == CHOOSE t \in tiles :
                        \A u \in tiles : u = t \/ SweptBefore(cameraPosition, t, u, iz)
         IN  <<next>> \o InSweepOrder(cameraPosition, tiles \ {next}, iz)

SweepTiles(cameraPosition, iz) ==
    InSweepOrder(cameraPosition,
                 {pos \in DOMAIN world : IsDrawableTile(pos) /\ IsSwept(cameraPosition, pos, iz)},
                 iz)

\* Mutant: covered tiles are not culled.
NeverSkipped(pos, firstVisibleFloor) == FALSE

\* tile->isCompletelyCovered(m_cachedFirstVisibleFloor) && !tile->hasLight()
IsSkippedAsCovered(pos, firstVisibleFloor) ==
    /\ firstVisibleFloor \in TileKinds[getTile(pos)].coveredFor
    /\ ~TileKinds[getTile(pos)].hasLight

\* The tiles of floor iz that reach the three lists.
AddedTiles(cameraPosition, iz, firstVisibleFloor) ==
    SelectSeq(SweepTiles(cameraPosition, iz),
              LAMBDA pos : ~IsSkippedAsCovered(pos, firstVisibleFloor))

EmptyFloor == [grounds |-> <<>>, borders |-> <<>>, bottomTops |-> <<>>]

\* What the tiles added on one floor append to its three lists.
SweptFloor(added) ==
    [grounds    |-> SelectSeq(added, LAMBDA pos : TileKinds[getTile(pos)].hasGround),
     borders    |-> SelectSeq(added, LAMBDA pos : TileKinds[getTile(pos)].hasGroundBorderToDraw),
     bottomTops |-> SelectSeq(added, LAMBDA pos : TileKinds[getTile(pos)].hasBottomOrTopToDraw)]

\* Mutant: the lists are never cleared.
ClearedNothing == {}

\* Mutant: an if in place of the do-while, only m_floorMin is cleared.
ClearedOnlyFloorMin == {m_floorMin}

\* The floors the do-while loop clears: m_floorMin, then up to m_floorMax.
ClearedFloors == {f \in Floors : f >= m_floorMin /\ f <= Max(m_floorMin, m_floorMax)}

\* The lists of floor f after the clear loop.
ClearedCache(f) == IF f \in ClearedFloors THEN EmptyFloor ELSE m_cachedVisibleTiles[f]

\* floor.grounds.push_back(tile) and its two siblings: the sweep appends.
AppendFloor(old, swept) ==
    [grounds    |-> old.grounds \o swept.grounds,
     borders    |-> old.borders \o swept.borders,
     bottomTops |-> old.bottomTops \o swept.bottomTops]

\* Mutant: the two bounds are updated the wrong way round.
RECURSIVE TrackFloorsSwapped(_, _, _, _, _)
TrackFloorsSwapped(cameraPosition, iz, firstVisibleFloor, fmin, fmax) ==
    IF iz < firstVisibleFloor THEN <<fmin, fmax>>
    ELSE IF AddedTiles(cameraPosition, iz, firstVisibleFloor) = <<>>
         THEN TrackFloorsSwapped(cameraPosition, iz - 1, firstVisibleFloor, fmin, fmax)
    ELSE IF iz < fmin THEN TrackFloorsSwapped(cameraPosition, iz - 1, firstVisibleFloor, fmin, iz)
    ELSE IF iz > fmax THEN TrackFloorsSwapped(cameraPosition, iz - 1, firstVisibleFloor, iz, fmax)
    ELSE TrackFloorsSwapped(cameraPosition, iz - 1, firstVisibleFloor, fmin, fmax)

\* m_floorMin and m_floorMax after the floors from iz down to the first
\* visible floor were swept: a floor that added a tile lowers m_floorMin, or
\* else raises m_floorMax.
RECURSIVE TrackFloors(_, _, _, _, _)
TrackFloors(cameraPosition, iz, firstVisibleFloor, fmin, fmax) ==
    IF iz < firstVisibleFloor THEN <<fmin, fmax>>
    ELSE IF AddedTiles(cameraPosition, iz, firstVisibleFloor) = <<>>
         THEN TrackFloors(cameraPosition, iz - 1, firstVisibleFloor, fmin, fmax)
    ELSE IF iz < fmin THEN TrackFloors(cameraPosition, iz - 1, firstVisibleFloor, iz, fmax)
    ELSE IF iz > fmax THEN TrackFloors(cameraPosition, iz - 1, firstVisibleFloor, fmin, iz)
    ELSE TrackFloors(cameraPosition, iz - 1, firstVisibleFloor, fmin, fmax)

\* if(cachedLastVisibleFloor < cachedFirstVisibleFloor) cachedLastVisibleFloor = cachedFirstVisibleFloor
FixedLastVisibleFloor(first, last) == IF last < first THEN first ELSE last

\* The inputs a rebuild reads.
RebuildInputs ==
    [camera |-> getCameraPosition, lock |-> m_lockedFirstVisibleFloor,
     multifloor |-> m_multifloor, drawDimension |-> m_drawDimension,
     virtualCenterOffset |-> m_virtualCenterOffset, world |-> world]

\* if(m_lastCameraPosition != cameraPosition)
PositionChanged(cameraPosition) == m_lastCameraPosition # cameraPosition

\* if(m_lastCameraPosition.z != cameraPosition.z) onFloorChange(...)
FloorChanged(cameraPosition) ==
    PositionChanged(cameraPosition) /\ m_lastCameraPosition.z # cameraPosition.z

\* The creature list is cleared and refilled: the flag was set, or
\* onFloorChange() sets it in this rebuild.
RebuildsCreatures(cameraPosition) ==
    m_mustUpdateVisibleCreaturesCache \/ FloorChanged(cameraPosition)

\* onFloorChange() calls updateLight(), which returns at once without lights.
UpdatesLight(cameraPosition) == FloorChanged(cameraPosition) /\ m_drawLights

\* Mutant: the dirty flag is cleared before the camera position is checked.
SkipClearingDirtyFlag ==
    /\ skipped' = TRUE
    /\ m_mustUpdateVisibleTilesCache' = FALSE
    /\ UNCHANGED <<m_lastCameraPosition, cacheVars, m_mustUpdateVisibleCreaturesCache,
                   invalidated, builtFrom>>

\* if(!cameraPosition.isValid()) return;
SkipOnInvalidCamera ==
    /\ skipped' = TRUE
    /\ UNCHANGED <<m_lastCameraPosition, cacheVars, flagVars, invalidated, builtFrom>>

\* updateVisibleTilesCache(): nothing at all on an invalid camera position.
updateVisibleTilesCache ==
    LET cameraPosition == getCameraPosition
        first == calcFirstVisibleFloor
        last == FixedLastVisibleFloor(first, calcLastVisibleFloor)
        minmax == TrackFloors(cameraPosition, last, first, cameraPosition.z, cameraPosition.z)
    IN  IF ~isValid(cameraPosition)
        THEN SkipOnInvalidCamera
        ELSE /\ m_lastCameraPosition' = cameraPosition
             /\ m_cachedFirstVisibleFloor' = first
             /\ m_cachedLastVisibleFloor' = last
             /\ m_cachedVisibleTiles' =
                    [f \in Floors |->
                        IF f >= first /\ f <= last
                        THEN AppendFloor(ClearedCache(f),
                                         SweptFloor(AddedTiles(cameraPosition, f, first)))
                        ELSE ClearedCache(f)]
             /\ m_floorMin' = minmax[1]
             /\ m_floorMax' = minmax[2]
             /\ m_mustUpdateVisibleCreaturesCache' = FALSE
             /\ m_mustUpdateVisibleTilesCache' = FALSE
             /\ invalidated' = FALSE
             /\ skipped' = FALSE
             /\ builtFrom' = RebuildInputs

(***************************************************************************)
(* draw(): the rebuild when the cache is dirty, the floor pass, and the     *)
(* creature information, light and text passes on a valid camera position.  *)
(***************************************************************************)
\* The floors drawFloor() goes through, from m_floorMax down to m_floorMin.
RECURSIVE DrawnFloors(_, _)
DrawnFloors(z, floorMin) == IF z < floorMin THEN <<>> ELSE <<z>> \o DrawnFloors(z - 1, floorMin)

\* The tiles one of the three per-floor loops of drawFloor() draws on the floors zs.
RECURSIVE DrawnTiles(_, _, _)
DrawnTiles(cache, zs, list) ==
    IF zs = <<>> THEN <<>>
    ELSE cache[Head(zs)][list] \o DrawnTiles(cache, Tail(zs), list)

\* The fade timer is followed for this many ticks.
MaxElapsed == 8

\* The setShader() calls are counted up to this many.
MaxShaderCalls == 3

\* Shaders are named; nullptr is the shader "null".
NullShader == "null"
DefaultMapShader == "default"

\* No before-draw hook has run since the last other step.
NoHook == [ran |-> FALSE, shader |-> NullShader, opacity |-> <<1, 1>>]

\* The last step was no setShader() call.
NoShaderCall == [made |-> FALSE, shader |-> NullShader, fadein |-> 0, fadeout |-> 0]

\* No fade-out has been started by setShader().
NoFade ==
    [tracked |-> FALSE, old |-> NullShader, next |-> NullShader, fadeIn |-> 0, fadeOut |-> 0,
     since |-> 0, swapped |-> FALSE, swapAt |-> 0]

\* No move() call has been made.
NoMoves == [calls |-> <<>>, before |-> <<>>]

\* The loop over the diagonals has not started.
NoSweep == [started |-> FALSE, diagonal |-> 0, cells |-> <<>>]

\* The last call was no geometry operation that gave up.
NoCall == [op |-> "none", outcome |-> "none"]

NoFrame ==
    [drawn |-> FALSE, cameraValid |-> FALSE, wasDirty |-> FALSE, wasInvalidated |-> FALSE,
     afterSkip |-> FALSE, repeated |-> FALSE, hadStale |-> FALSE, rebuilds |-> 0, background |-> FALSE, floors |-> <<>>, grounds |-> <<>>, borders |-> <<>>,
     bottomTops |-> <<>>, shadows |-> <<>>, creatureInformation |-> FALSE, light |-> FALSE,
     text |-> FALSE, afterFollow |-> FALSE, floorChanged |-> FALSE,
     creaturesRebuilt |-> FALSE, lightUpdated |-> FALSE]

\* Mutant: the shadow goes over the floor above the camera's.
AddsShadowAbove(z) == m_shadowFloorIntensity > 0 /\ z = getCameraPosition.z - 1

\* if(m_shadowFloorIntensity > 0 && z == cameraPosition.z + 1): the floor loop
\* adds the shadow rectangle after the things of floor z.
AddsShadow(z) == m_shadowFloorIntensity > 0 /\ z = getCameraPosition.z + 1

\* drawFloor(): the background, then per floor the grounds, the borders, the
\* bottom/top things, the floor's missiles and the shadow.
drawFloor(fr, cache, floorMin, floorMax) ==
    LET zs == DrawnFloors(floorMax, floorMin)
    IN  [fr EXCEPT !.background = TRUE,
                   !.floors = zs,
                   !.shadows = SelectSeq(zs, AddsShadow),
                   !.grounds = DrawnTiles(cache, zs, "grounds"),
                   !.borders = DrawnTiles(cache, zs, "borders"),
                   !.bottomTops = DrawnTiles(cache, zs, "bottomTops")]

\* Mutant: the passes run whatever the camera position is.
drawOverlaysAlways(fr) ==
    [fr EXCEPT !.creatureInformation = TRUE, !.light = m_drawLights, !.text = TRUE]

\* The passes of draw() after drawFloor(): none on an invalid camera position.
drawOverlays(fr) ==
    IF ~isValid(getCameraPosition) THEN fr
    ELSE [fr EXCEPT !.creatureInformation = TRUE, !.light = m_drawLights, !.text = TRUE]

\* Some floor outside the range this draw() would rebuild still holds tiles.
HasStaleFloor ==
    \E f \in Floors :
        /\ m_cachedVisibleTiles[f] # EmptyFloor
        /\ \/ f < calcFirstVisibleFloor
           \/ f > FixedLastVisibleFloor(calcFirstVisibleFloor, calcLastVisibleFloor)

\* Mutant: draw() rebuilds in every frame.
MustRebuildAlways == TRUE

\* if(m_mustUpdateVisibleTilesCache) updateVisibleTilesCache();
MustRebuild == m_mustUpdateVisibleTilesCache

\* Creature::getWalkOffset() of the followed creature: the creature stands.
getWalkOffset(creature) == <<0, 0>>

\* Point * float: each coordinate times the fraction, truncated to int
ScaledPoint(point, factor) ==
    <<TruncDiv(point[1] * factor[1], factor[2]), TruncDiv(point[2] * factor[1], factor[2])>>

\* Size::scale(s, Fw::KeepAspectRatio): the largest size of the same aspect
\* ratio that fits into s.
ScaledToFit(size, s) ==
    LET rw == (s[2] * size[1]) \div size[2]
    IN  IF rw <= s[1] THEN <<rw, s[2]>> ELSE <<s[1], (s[1] * size[2]) \div size[1]>>

\* A Rect is <<x, y, width, height>>.
calcFramebufferSource(destSize) ==
    LET centre == <<((m_drawDimension[1] - m_visibleDimension[1] - 1) \div 2) * m_tileSize,
                    ((m_drawDimension[2] - m_visibleDimension[2] - 1) \div 2) * m_tileSize>>
        shift == IF isFollowingCreature
                   THEN ScaledPoint(getWalkOffset(m_followingCreature), m_scaleFactor)
                 ELSE IF m_moveOffset # <<0, 0>>
                   THEN ScaledPoint(m_moveOffset, m_scaleFactor)
                 ELSE <<0, 0>>
        srcVisible == <<m_visibleDimension[1] * m_tileSize, m_visibleDimension[2] * m_tileSize>>
        srcSize == ScaledToFit(destSize, srcVisible)
    IN  <<centre[1] + shift[1] + TruncDiv(srcVisible[1] - srcSize[1], 2),
          centre[2] + shift[2] + TruncDiv(srcVisible[2] - srcSize[2], 2),
          srcSize[1], srcSize[2]>>

\* The rect cache as draw() fills it for rect.
FilledRectCache(rect) ==
    LET srcRect == calcFramebufferSource(<<rect[3], rect[4]>>)
    IN  [rect |-> rect,
         srcRect |-> srcRect,
         drawOffset |-> <<srcRect[1], srcRect[2]>>,
         horizontalStretchFactor |-> <<rect[3], srcRect[3]>>,
         verticalStretchFactor |-> <<rect[4], srcRect[4]>>]

\* if(m_rectCache.rect != rect) { m_rectCache.rect = rect; ... }
RectCacheFor(rect) == IF m_rectCache.rect # rect THEN FilledRectCache(rect) ELSE m_rectCache

Draw(rect) ==
    /\ m_rectCache' = RectCacheFor(rect)
    /\ IF MustRebuild
       THEN updateVisibleTilesCache
       ELSE UNCHANGED <<m_lastCameraPosition, cacheVars, flagVars, invalidated, skipped, builtFrom>>
    /\ frame' =
         drawOverlays(
           drawFloor([NoFrame EXCEPT !.drawn = TRUE,
                                     !.cameraValid = isValid(getCameraPosition),
                                     !.wasDirty = m_mustUpdateVisibleTilesCache,
                                     !.wasInvalidated = invalidated,
                                     !.afterSkip = skipped,
                                     !.repeated = (builtFrom = RebuildInputs),
                                     !.hadStale = HasStaleFloor,
                                     !.rebuilds = IF MustRebuild /\ isValid(getCameraPosition)
                                                  THEN 1 ELSE 0,
                                     !.afterFollow = followed,
                                     !.floorChanged = MustRebuild /\ isValid(getCameraPosition)
                                                      /\ FloorChanged(getCameraPosition),
                                     !.creaturesRebuilt = MustRebuild /\ isValid(getCameraPosition)
                                                          /\ RebuildsCreatures(getCameraPosition),
                                     !.lightUpdated = MustRebuild /\ isValid(getCameraPosition)
                                                      /\ UpdatesLight(getCameraPosition)],
                     m_cachedVisibleTiles', m_floorMin', m_floorMax'))
    /\ followed' = IF isValid(getCameraPosition) THEN FALSE ELSE followed
    /\ UNCHANGED <<envVars, cameraVars, m_lockedFirstVisibleFloor, geometryVars, m_drawLights,
                   cameraMode, calcResult, extentVars, m_moveOffset, moved,
                   m_shadowFloorIntensity, shaderVars, sweep>>
    /\ geometryCall' = NoCall

(***************************************************************************)
(* The requests: each marks the cache dirty and does nothing else to it.    *)
(***************************************************************************)
\* requestVisibleTilesCacheUpdate() (mapview.h), as every caller in this file uses it
requestVisibleTilesCacheUpdate ==
    /\ m_mustUpdateVisibleTilesCache' = TRUE
    /\ invalidated' = TRUE

onTileUpdate(thingIsCreature) ==
    /\ m_mustUpdateVisibleCreaturesCache' =
           IF thingIsCreature THEN TRUE ELSE m_mustUpdateVisibleCreaturesCache
    /\ requestVisibleTilesCacheUpdate
    /\ frame' = NoFrame
    /\ UNCHANGED <<extentVars, m_rectCache, restVars>>
    /\ geometryCall' = NoCall
    /\ UNCHANGED <<envVars, cameraVars, m_lastCameraPosition, m_lockedFirstVisibleFloor,
                   geometryVars, m_drawLights, cacheVars, builtFrom, skipped, cameraMode, calcResult>>

onMapCenterChange ==
    /\ requestVisibleTilesCacheUpdate
    /\ frame' = NoFrame
    /\ UNCHANGED <<extentVars, m_rectCache, restVars>>
    /\ geometryCall' = NoCall
    /\ UNCHANGED <<envVars, cameraVars, m_lastCameraPosition, m_lockedFirstVisibleFloor,
                   geometryVars, m_drawLights, cacheVars, m_mustUpdateVisibleCreaturesCache,
                   builtFrom, skipped, cameraMode, calcResult>>

lockFirstVisibleFloor(firstVisibleFloor) ==
    /\ m_lockedFirstVisibleFloor' = firstVisibleFloor
    /\ requestVisibleTilesCacheUpdate
    /\ frame' = NoFrame
    /\ UNCHANGED <<extentVars, m_rectCache, restVars>>
    /\ geometryCall' = NoCall
    /\ UNCHANGED <<envVars, cameraVars, m_lastCameraPosition, geometryVars, m_drawLights,
                   cacheVars, m_mustUpdateVisibleCreaturesCache, builtFrom, skipped, cameraMode, calcResult>>

unlockFirstVisibleFloor ==
    /\ m_lockedFirstVisibleFloor' = UINT8_MAX
    /\ requestVisibleTilesCacheUpdate
    /\ frame' = NoFrame
    /\ UNCHANGED <<extentVars, m_rectCache, restVars>>
    /\ geometryCall' = NoCall
    /\ UNCHANGED <<envVars, cameraVars, m_lastCameraPosition, geometryVars, m_drawLights,
                   cacheVars, m_mustUpdateVisibleCreaturesCache, builtFrom, skipped, cameraMode, calcResult>>

\* Mutant: the last camera position survives the switch.
LastCameraKept == m_lastCameraPosition

\* m_lastCameraPosition = Position()
LastCameraAfterFollow == InvalidPosition

followCreature(creature) ==
    /\ m_follow' = TRUE
    /\ m_followingCreature' = creature
    /\ m_lastCameraPosition' = LastCameraAfterFollow
    /\ requestVisibleTilesCacheUpdate
    /\ cameraMode' = [kind |-> "follow", creature |-> creature, pos |-> InvalidPosition]
    /\ frame' = NoFrame
    /\ followed' = TRUE
    /\ UNCHANGED <<extentVars, m_rectCache, m_moveOffset, moved, m_shadowFloorIntensity,
                   shaderVars, sweep>>
    /\ geometryCall' = NoCall
    /\ UNCHANGED <<envVars, m_customCameraPosition, m_lockedFirstVisibleFloor, geometryVars,
                   m_drawLights, cacheVars, m_mustUpdateVisibleCreaturesCache, builtFrom,
                   skipped, calcResult>>

\* Mutant: the follow mode is left on.
setCameraPositionStillFollowing(pos) ==
    /\ m_customCameraPosition' = pos
    /\ requestVisibleTilesCacheUpdate
    /\ cameraMode' = [kind |-> "fixed", creature |-> NullCreature, pos |-> pos]
    /\ frame' = NoFrame
    /\ UNCHANGED <<extentVars, m_rectCache, restVars>>
    /\ geometryCall' = NoCall
    /\ UNCHANGED <<envVars, m_follow, m_followingCreature, m_lastCameraPosition,
                   m_lockedFirstVisibleFloor, geometryVars, m_drawLights, cacheVars,
                   m_mustUpdateVisibleCreaturesCache, builtFrom, skipped, calcResult>>

setCameraPosition(pos) ==
    /\ m_follow' = FALSE
    /\ m_customCameraPosition' = pos
    /\ requestVisibleTilesCacheUpdate
    /\ cameraMode' = [kind |-> "fixed", creature |-> NullCreature, pos |-> pos]
    /\ frame' = NoFrame
    /\ UNCHANGED <<extentVars, m_rectCache, restVars>>
    /\ geometryCall' = NoCall
    /\ UNCHANGED <<envVars, m_followingCreature, m_lastCameraPosition, m_lockedFirstVisibleFloor,
                   geometryVars, m_drawLights, cacheVars, m_mustUpdateVisibleCreaturesCache,
                   builtFrom, skipped, calcResult>>

setDrawLights(enable) ==
    /\ enable # m_drawLights
    /\ m_drawLights' = enable
    /\ frame' = NoFrame
    /\ UNCHANGED <<extentVars, m_rectCache, restVars>>
    /\ geometryCall' = NoCall
    /\ UNCHANGED <<envVars, cameraVars, m_lastCameraPosition, m_lockedFirstVisibleFloor,
                   geometryVars, cacheVars, flagVars, invalidated, builtFrom, skipped, cameraMode, calcResult>>

(***************************************************************************)
(* Geometry.  A Size is <<width, height>>.                                  *)
(***************************************************************************)
\* const uint8 tileSize = Otc::TILE_PIXELS * (static_cast<float>(m_renderScale) / 100)
TileSizeOf(renderScale) == ToUint8((TILE_PIXELS * renderScale) \div 100)

\* Mutant: one column and one row less.
DrawDimensionPlusTwo(visibleDimension) == <<visibleDimension[1] + 2, visibleDimension[2] + 2>>

\* const Size drawDimension = visibleDimension + Size(3)
DrawDimensionOf(visibleDimension) == <<visibleDimension[1] + 3, visibleDimension[2] + 3>>

\* (drawDimension / 2 - Size(1)).toPoint()
VirtualCenterOffsetOf(drawDimension) == <<drawDimension[1] \div 2 - 1, drawDimension[2] \div 2 - 1>>

\* The view mode the auto mode selects.
AutoViewModeOf(tileSize, visibleDimension) ==
    LET area == visibleDimension[1] * visibleDimension[2]
    IN  IF tileSize >= TILE_PIXELS /\ area <= NEAR_VIEW_AREA THEN NEAR_VIEW
        ELSE IF tileSize >= 16 /\ area <= MID_VIEW_AREA THEN MID_VIEW
        ELSE IF tileSize >= 8 /\ area <= FAR_VIEW_AREA THEN FAR_VIEW
        ELSE HUGE_VIEW

\* Mutant: the texture limit is not checked.
NeverReachedMaxZoomOut(visibleDimension, renderScale) == FALSE

\* bufferSize exceeds the backend's maximum texture size
ReachedMaxZoomOut(visibleDimension, renderScale) ==
    \/ DrawDimensionOf(visibleDimension)[1] * TileSizeOf(renderScale) > maxTextureSize
    \/ DrawDimensionOf(visibleDimension)[2] * TileSizeOf(renderScale) > maxTextureSize

\* m_scaleFactor = m_tileSize / static_cast<float>(Otc::TILE_PIXELS)
ScaleFactorOf(tileSize) == <<tileSize, TILE_PIXELS>>

\* m_rectDimension = Rect(0, 0, bufferSize); a Rect is <<x, y, width, height>>.
RectDimensionOf(drawDimension, tileSize) ==
    <<0, 0, drawDimension[1] * tileSize, drawDimension[2] * tileSize>>

\* Rect()
NullRect == <<0, 0, 0, 0>>

\* g_map.getAwareRange()
MapAwareRange == [left |-> 8, top |-> 6, bottom |-> 7, right |-> 9]

\* m_awareRange: the map's range cut down to the draw dimension (std::min<uint16>).
AwareRangeOf(drawDimension) ==
    LET left == Min(MapAwareRange.left, (drawDimension[1] \div 2 - 1) % (UINT16_MAX + 1))
        top == Min(MapAwareRange.top, (drawDimension[2] \div 2 - 1) % (UINT16_MAX + 1))
    IN  [left |-> left, top |-> top, bottom |-> top + 1, right |-> left + 1]

\* What geometryCall keeps of a call of op that reaches updateGeometry(): the
\* call when updateGeometry() gives up, nothing when it goes through.  A size
\* that setVisibleDimension() turns away is kept as "rejected".
GeometryOutcome(op, visibleDimension, renderScale) ==
    IF ReachedMaxZoomOut(visibleDimension, renderScale)
    THEN [op |-> op, outcome |-> "aborted"]
    ELSE NoCall

\* What updateGeometry() writes, and leaves alone when it gives up.
updateGeometryVars ==
    <<m_viewMode, m_multifloor, m_tileSize, m_visibleDimension, m_drawDimension,
      m_virtualCenterOffset, extentVars, m_rectCache, flagVars, invalidated>>

\* updateGeometry(visibleDimension, optimizedSize) with m_renderScale and
\* m_autoViewMode as the caller has just set them.
updateGeometry(visibleDimension, optimizedSize, renderScale, autoViewMode) ==
    IF ReachedMaxZoomOut(visibleDimension, renderScale)
    THEN UNCHANGED updateGeometryVars
    ELSE /\ m_viewMode' = IF autoViewMode
                          THEN AutoViewModeOf(TileSizeOf(renderScale), visibleDimension)
                          ELSE m_viewMode
         /\ m_multifloor' = IF autoViewMode
                            THEN AutoViewModeOf(TileSizeOf(renderScale), visibleDimension) < FAR_VIEW
                            ELSE m_multifloor
         /\ m_visibleDimension' = visibleDimension
         /\ m_drawDimension' = DrawDimensionOf(visibleDimension)
         /\ m_tileSize' = TileSizeOf(renderScale)
         /\ m_virtualCenterOffset' = VirtualCenterOffsetOf(DrawDimensionOf(visibleDimension))
         /\ m_visibleCenterOffset' = VirtualCenterOffsetOf(DrawDimensionOf(visibleDimension))
         /\ m_optimizedSize' = optimizedSize
         /\ m_rectDimension' = RectDimensionOf(DrawDimensionOf(visibleDimension),
                                               TileSizeOf(renderScale))
         /\ m_scaleFactor' = ScaleFactorOf(TileSizeOf(renderScale))
         /\ m_awareRange' = AwareRangeOf(DrawDimensionOf(visibleDimension))
         /\ m_rectCache' = [m_rectCache EXCEPT !.rect = NullRect]
         /\ requestVisibleTilesCacheUpdate
         /\ UNCHANGED m_mustUpdateVisibleCreaturesCache

\* Mutant: the minimum is not checked.
NeverBelowMinimum(visibleDimension) == FALSE

\* visibleDimension < Size(3)
BelowMinimum(visibleDimension) == visibleDimension[1] < 3 \/ visibleDimension[2] < 3

setVisibleDimension(visibleDimension) ==
    /\ IF \/ visibleDimension = m_visibleDimension
          \/ visibleDimension[1] % 2 # 1
          \/ visibleDimension[2] % 2 # 1
          \/ BelowMinimum(visibleDimension)
       THEN UNCHANGED updateGeometryVars
       ELSE updateGeometry(visibleDimension, m_optimizedSize, m_renderScale, m_autoViewMode)
    /\ frame' = NoFrame
    /\ UNCHANGED restVars
    /\ geometryCall' = IF visibleDimension = m_visibleDimension THEN NoCall
                       ELSE IF \/ visibleDimension[1] % 2 # 1
                               \/ visibleDimension[2] % 2 # 1
                               \/ BelowMinimum(visibleDimension)
                            THEN [op |-> "setVisibleDimension", outcome |-> "rejected"]
                       ELSE GeometryOutcome("setVisibleDimension", visibleDimension, m_renderScale)
    /\ UNCHANGED <<envVars, cameraVars, m_lastCameraPosition, m_lockedFirstVisibleFloor,
                   m_autoViewMode, m_renderScale, m_drawLights, cacheVars, builtFrom, skipped, cameraMode, calcResult>>

setViewMode(viewMode) ==
    /\ m_viewMode' = viewMode
    /\ requestVisibleTilesCacheUpdate
    /\ frame' = NoFrame
    /\ UNCHANGED <<extentVars, m_rectCache, restVars>>
    /\ geometryCall' = NoCall
    /\ UNCHANGED <<envVars, cameraVars, m_lastCameraPosition, m_lockedFirstVisibleFloor,
                   m_multifloor, m_autoViewMode, m_renderScale, m_tileSize, m_visibleDimension,
                   m_drawDimension, m_virtualCenterOffset, m_drawLights, cacheVars,
                   m_mustUpdateVisibleCreaturesCache, builtFrom, skipped, cameraMode, calcResult>>

setAutoViewMode(enable) ==
    /\ m_autoViewMode' = enable
    /\ IF enable
       THEN updateGeometry(m_visibleDimension, m_optimizedSize, m_renderScale, enable)
       ELSE UNCHANGED updateGeometryVars
    /\ frame' = NoFrame
    /\ UNCHANGED restVars
    /\ geometryCall' = IF enable
                       THEN GeometryOutcome("setAutoViewMode", m_visibleDimension, m_renderScale)
                       ELSE NoCall
    /\ UNCHANGED <<envVars, cameraVars, m_lastCameraPosition, m_lockedFirstVisibleFloor,
                   m_renderScale, m_drawLights, cacheVars, builtFrom, skipped, cameraMode, calcResult>>

setRenderScale(scale) ==
    /\ m_renderScale' = scale
    /\ updateGeometry(m_visibleDimension, m_optimizedSize, scale, m_autoViewMode)
    /\ frame' = NoFrame
    /\ UNCHANGED restVars
    /\ geometryCall' = GeometryOutcome("setRenderScale", m_visibleDimension, scale)
    /\ UNCHANGED <<envVars, cameraVars, m_lastCameraPosition, m_lockedFirstVisibleFloor,
                   m_autoViewMode, m_drawLights, cacheVars, builtFrom, skipped, cameraMode, calcResult>>

optimizeForSize(visibleSize) ==
    /\ updateGeometry(m_visibleDimension, visibleSize, m_renderScale, m_autoViewMode)
    /\ frame' = NoFrame
    /\ UNCHANGED restVars
    /\ geometryCall' = GeometryOutcome("optimizeForSize", m_visibleDimension, m_renderScale)
    /\ UNCHANGED <<envVars, cameraVars, m_lastCameraPosition, m_lockedFirstVisibleFloor,
                   m_autoViewMode, m_renderScale, m_drawLights, cacheVars, builtFrom, skipped,
                   cameraMode, calcResult>>

\* setAntiAliasing(enable): the smoothing itself is the map pool's.
setAntiAliasing(enable) ==
    /\ updateGeometry(m_visibleDimension, m_optimizedSize, m_renderScale, m_autoViewMode)
    /\ frame' = NoFrame
    /\ UNCHANGED restVars
    /\ geometryCall' = GeometryOutcome("setAntiAliasing", m_visibleDimension, m_renderScale)
    /\ UNCHANGED <<envVars, cameraVars, m_lastCameraPosition, m_lockedFirstVisibleFloor,
                   m_autoViewMode, m_renderScale, m_drawLights, cacheVars, builtFrom, skipped,
                   cameraMode, calcResult>>

(***************************************************************************)
(* move(x, y): the camera is shifted by pixels; whole tiles go to the       *)
(* custom camera position, the rest stays in m_moveOffset.                  *)
(***************************************************************************)
\* Mutant: the committed tiles are not taken out of the offset.
OffsetKeptWhole(offset, tmp) == offset

\* if(tmp != 0) { ...; m_moveOffset.x %= Otc::TILE_PIXELS; ... }
OffsetAfterCommit(offset, tmp) == IF tmp # 0 THEN TruncRem(offset, TILE_PIXELS) ELSE offset

move(x, y) ==
    LET offsetX == m_moveOffset[1] + x
        offsetY == m_moveOffset[2] + y
        tmpX == TruncDiv(offsetX, TILE_PIXELS)
        tmpY == TruncDiv(offsetY, TILE_PIXELS)
        requestTilesUpdate == tmpX # 0 \/ tmpY # 0
    IN  /\ m_customCameraPosition' = translated(m_customCameraPosition, tmpX, tmpY)
        /\ m_moveOffset' = <<OffsetAfterCommit(offsetX, tmpX), OffsetAfterCommit(offsetY, tmpY)>>
        /\ m_rectCache' = [m_rectCache EXCEPT !.rect = NullRect]
        /\ IF requestTilesUpdate
             THEN requestVisibleTilesCacheUpdate
             ELSE UNCHANGED <<m_mustUpdateVisibleTilesCache, invalidated>>
        /\ moved' = [calls |-> Append(moved.calls, <<x, y>>),
                     before |-> Append(moved.before,
                                       [position |-> m_customCameraPosition,
                                        offset |-> m_moveOffset,
                                        dirty |-> m_mustUpdateVisibleTilesCache])]
        /\ cameraMode' = IF cameraMode.kind = "fixed"
                           THEN [cameraMode EXCEPT !.pos = m_customCameraPosition']
                           ELSE cameraMode
        /\ frame' = NoFrame
        /\ geometryCall' = NoCall
        /\ UNCHANGED <<envVars, m_follow, m_followingCreature, m_lastCameraPosition,
                       m_lockedFirstVisibleFloor, geometryVars, m_drawLights, cacheVars,
                       m_mustUpdateVisibleCreaturesCache, builtFrom, skipped, calcResult,
                       extentVars, m_shadowFloorIntensity, shaderVars, sweep, followed>>

(***************************************************************************)
(* The shader fade.  Times are whole ticks of the fade timer; an opacity is *)
(* a fraction <<numerator, denominator>> with a positive denominator.       *)
(***************************************************************************)
\* The members and observations no shader step writes.
shaderFrameVars ==
    <<envVars, cameraVars, m_lastCameraPosition, m_lockedFirstVisibleFloor, geometryVars,
      m_drawLights, cacheVars, flagVars, obsVars, extentVars, m_rectCache, geometryCall,
      m_moveOffset, moved, m_shadowFloorIntensity, sweep, followed>>

setShader(shader, fadein, fadeout) ==
    /\ shaderCall' = [made |-> TRUE, shader |-> shader, fadein |-> fadein, fadeout |-> fadeout]
    /\ requested' = [shader |-> shader, calls |-> Min(requested.calls + 1, MaxShaderCalls)]
    /\ hook' = NoHook
    /\ IF m_shader = shader
         THEN UNCHANGED <<m_shader, m_nextShader, m_shaderSwitchDone, m_fadeInTime,
                          m_fadeOutTime, m_fadeTimer, fade>>
         ELSE /\ IF fadeout > 0 /\ m_shader # NullShader
                   THEN /\ m_nextShader' = shader
                        /\ m_shaderSwitchDone' = FALSE
                        /\ fade' = [tracked |-> TRUE, old |-> m_shader, next |-> shader,
                                    fadeIn |-> fadein, fadeOut |-> fadeout, since |-> 0,
                                    swapped |-> FALSE, swapAt |-> 0]
                        /\ UNCHANGED m_shader
                   ELSE /\ m_shader' = shader
                        /\ m_nextShader' = NullShader
                        /\ m_shaderSwitchDone' = TRUE
                        /\ fade' = NoFade
              /\ m_fadeTimer' = 0
              /\ m_fadeInTime' = fadein
              /\ m_fadeOutTime' = fadeout
    /\ UNCHANGED shaderFrameVars

\* fadeOpacity = 1.0f - (m_fadeTimer.timeElapsed() / m_fadeOutTime)
FadeOutOpacity(elapsed, fadeOutTime) == <<fadeOutTime - elapsed, fadeOutTime>>

\* std::min<float>(m_fadeTimer.timeElapsed() / m_fadeInTime, 1.0f)
FadeInOpacity(elapsed, fadeInTime) ==
    IF elapsed >= fadeInTime THEN <<1, 1>> ELSE <<elapsed, fadeInTime>>

\* Mutant: the shaders are swapped as soon as the opacity is zero.
FadedOutAtZero(fadeOpacity) == fadeOpacity[1] <= 0

\* if(fadeOpacity < 0.0f)
FadedOut(fadeOpacity) == fadeOpacity[1] < 0

\* The hook the map pool runs before it draws: m_pools.map->onBeforeDraw(...)
onBeforeDraw ==
    LET fadingOut == ~m_shaderSwitchDone /\ m_fadeOutTime > 0
        outOpacity == IF fadingOut THEN FadeOutOpacity(m_fadeTimer, m_fadeOutTime) ELSE <<1, 1>>
        swaps == fadingOut /\ FadedOut(outOpacity)
        shader == IF swaps THEN m_nextShader ELSE m_shader
        switchDone == swaps \/ m_shaderSwitchDone
        elapsed == IF swaps THEN 0 ELSE m_fadeTimer
        fadeOpacity == IF switchDone /\ shader # NullShader /\ m_fadeInTime > 0
                         THEN FadeInOpacity(elapsed, m_fadeInTime)
                         ELSE outOpacity
    IN  /\ m_shader' = shader
        /\ m_nextShader' = IF swaps THEN NullShader ELSE m_nextShader
        /\ m_shaderSwitchDone' = switchDone
        /\ m_fadeTimer' = elapsed
        /\ hook' = [ran |-> TRUE, shader |-> shader, opacity |-> fadeOpacity]
        /\ fade' = IF swaps /\ fade.tracked
                     THEN [fade EXCEPT !.swapped = TRUE, !.swapAt = fade.since]
                     ELSE fade
        /\ shaderCall' = NoShaderCall
        /\ UNCHANGED <<m_fadeInTime, m_fadeOutTime, requested>>
        /\ UNCHANGED shaderFrameVars

\* The clock advances by one tick between two steps.  Elapsed times beyond
\* MaxElapsed, which is longer than every fade, are not told apart, and a fade
\* is followed for MaxElapsed ticks.
TimePasses ==
    /\ m_fadeTimer' = Min(m_fadeTimer + 1, MaxElapsed)
    /\ fade' = IF ~fade.tracked THEN fade
               ELSE IF fade.since + 1 < MaxElapsed THEN [fade EXCEPT !.since = fade.since + 1]
               ELSE NoFade
    /\ hook' = NoHook
    /\ shaderCall' = NoShaderCall
    /\ UNCHANGED <<m_shader, m_nextShader, m_shaderSwitchDone, m_fadeInTime, m_fadeOutTime,
                   requested>>
    /\ UNCHANGED shaderFrameVars

(***************************************************************************)
(* The environment: the world grid and the creatures change on their own.   *)
(***************************************************************************)
WorldChanges(layout) ==
    /\ world' = layout
    /\ world' # world
    /\ frame' = NoFrame
    /\ UNCHANGED <<extentVars, m_rectCache, restVars>>
    /\ geometryCall' = NoCall
    /\ UNCHANGED <<creaturePosition, maxTextureSize, cameraVars, m_lastCameraPosition,
                   m_lockedFirstVisibleFloor, geometryVars, m_drawLights, cacheVars, flagVars,
                   invalidated, builtFrom, skipped, cameraMode, calcResult>>

CreatureMoves(creature, pos) ==
    /\ creaturePosition' = [creaturePosition EXCEPT ![creature] = pos]
    /\ creaturePosition' # creaturePosition
    /\ frame' = NoFrame
    /\ UNCHANGED <<extentVars, m_rectCache, restVars>>
    /\ geometryCall' = NoCall
    /\ UNCHANGED <<world, maxTextureSize, cameraVars, m_lastCameraPosition,
                   m_lockedFirstVisibleFloor, geometryVars, m_drawLights, cacheVars, flagVars,
                   invalidated, builtFrom, skipped, cameraMode, calcResult>>

(***************************************************************************)
(* The state after construction: MapView() ends in                          *)
(* setVisibleDimension(Size(15, 11)).  The members' initial values come     *)
(* from mapview.h.                                                          *)
(***************************************************************************)
DefaultVisibleDimension == <<15, 11>>

\* m_optimizedSize as the constructor computes it from the map's aware range
InitialOptimizedSize ==
    <<(MapAwareRange.left + MapAwareRange.right + 1) * TILE_PIXELS,
      (MapAwareRange.top + MapAwareRange.bottom + 1) * TILE_PIXELS>>

\* The members updateGeometry() has written when the constructor returns.
InitExtent ==
    /\ m_visibleCenterOffset = VirtualCenterOffsetOf(DrawDimensionOf(DefaultVisibleDimension))
    /\ m_optimizedSize = InitialOptimizedSize
    /\ m_rectDimension = RectDimensionOf(DrawDimensionOf(DefaultVisibleDimension), TileSizeOf(100))
    /\ m_scaleFactor = ScaleFactorOf(TileSizeOf(100))
    /\ m_awareRange = AwareRangeOf(DrawDimensionOf(DefaultVisibleDimension))
    /\ m_rectCache = [rect |-> NullRect, srcRect |-> NullRect, drawOffset |-> <<0, 0>>,
                      horizontalStretchFactor |-> <<0, 1>>, verticalStretchFactor |-> <<0, 1>>]


\* The members no geometry update writes.
InitRest ==
    /\ m_moveOffset = <<0, 0>>
    /\ m_shader = DefaultMapShader
    /\ m_nextShader = NullShader
    /\ m_shaderSwitchDone = TRUE
    /\ m_fadeInTime = 0
    /\ m_fadeOutTime = 0
    /\ m_fadeTimer = 0
    /\ hook = NoHook
    /\ fade = NoFade
    /\ shaderCall = NoShaderCall
    /\ requested = [shader |-> DefaultMapShader, calls |-> 0]
    /\ moved = NoMoves
    /\ sweep = NoSweep
    /\ followed = FALSE
    /\ geometryCall = NoCall

InitView ==
    /\ m_follow = TRUE
    /\ m_followingCreature = NullCreature
    /\ m_customCameraPosition = InvalidPosition
    /\ m_lastCameraPosition = InvalidPosition
    /\ m_lockedFirstVisibleFloor = UINT8_MAX
    /\ m_multifloor = TRUE
    /\ m_viewMode = NEAR_VIEW
    /\ m_autoViewMode = FALSE
    /\ m_renderScale = 100
    /\ m_tileSize = TileSizeOf(100)
    /\ m_visibleDimension = DefaultVisibleDimension
    /\ m_drawDimension = DrawDimensionOf(DefaultVisibleDimension)
    /\ m_virtualCenterOffset = VirtualCenterOffsetOf(DrawDimensionOf(DefaultVisibleDimension))
    /\ InitExtent
    /\ InitRest
    /\ m_drawLights = FALSE
    /\ m_mustUpdateVisibleTilesCache = TRUE
    /\ m_mustUpdateVisibleCreaturesCache = TRUE
    /\ m_cachedFirstVisibleFloor = SEA_FLOOR
    /\ m_cachedLastVisibleFloor = SEA_FLOOR
    /\ m_floorMin = 0
    /\ m_floorMax = 0
    /\ m_cachedVisibleTiles = [f \in Floors |-> EmptyFloor]
    /\ frame = NoFrame
    /\ invalidated = TRUE
    /\ skipped = FALSE
    /\ cameraMode = [kind |-> "none", creature |-> NullCreature, pos |-> InvalidPosition]
    /\ builtFrom = [camera |-> InvalidPosition]
    /\ calcResult = [done |-> FALSE, first |-> 0, last |-> 0]

(***************************************************************************)
(* The worlds and the inputs of the specification Spec.                     *)
(***************************************************************************)
PA == Pos(100, 100, 7)
PB == Pos(101, 100, 9)

\* An open landscape: ground around both camera positions, tiles on the
\* floors above and below, some of them hidden, some hidden but lit.
OpenWorld ==
    (Pos(100, 100, 7) :> 1) @@ (Pos(99, 100, 7) :> 1) @@ (Pos(100, 99, 7) :> 1) @@
    (Pos(103, 103, 7) :> 5) @@ (Pos(101, 101, 5) :> 6) @@ (Pos(102, 100, 6) :> 2) @@
    (Pos(100, 102, 6) :> 3) @@ (Pos(104, 104, 3) :> 1) @@
    (Pos(101, 100, 9) :> 1) @@ (Pos(102, 102, 8) :> 1) @@ (Pos(101, 100, 10) :> 1) @@
    (Pos(100, 101, 10) :> 3) @@ (Pos(101, 101, 11) :> 2) @@ (Pos(100, 100, 11) :> 6)

\* The same with a roof over each camera position.
RoofedWorld ==
    (Pos(100, 100, 6) :> 4) @@ (Pos(101, 100, 8) :> 4) @@ OpenWorld

Layouts == {OpenWorld, RoofedWorld}
CameraPositions == {PA}
CreaturePositions == {InvalidPosition, PB}
LockFloors == {10}
RenderScales == {100, 25}
VisibleDimensions == {<<3, 3>>}
MaxTextureSizes == {4096}
DrawRects == {<<0, 0, 480, 352>>}

Init ==
    /\ InitView
    /\ world \in Layouts
    /\ creaturePosition \in [Creatures -> CreaturePositions]
    /\ maxTextureSize \in MaxTextureSizes
    /\ m_shadowFloorIntensity = 0

Next ==
    \/ \E rect \in DrawRects : Draw(rect)
    \/ \E isCreature \in BOOLEAN : onTileUpdate(isCreature)
    \/ onMapCenterChange
    \/ \E floor \in LockFloors : lockFirstVisibleFloor(floor)
    \/ unlockFirstVisibleFloor
    \/ \E creature \in Creatures : followCreature(creature)
    \/ \E pos \in CameraPositions : setCameraPosition(pos)
    \/ \E enable \in BOOLEAN : setAutoViewMode(enable)
    \/ \E scale \in RenderScales : setRenderScale(scale)
    \/ \E dimension \in VisibleDimensions : setVisibleDimension(dimension)
    \/ \E layout \in Layouts : WorldChanges(layout)
    \/ \E creature \in Creatures, pos \in CreaturePositions : CreatureMoves(creature, pos)

Spec == Init /\ [][Next]_vars

(***************************************************************************)
(* SpecFrame: the camera modes and the passes of a frame, in one world.     *)
(***************************************************************************)
PC == Pos(99, 101, 7)
FrameCameraPositions == {PA, PC}
FrameFollowTargets == Creatures \cup {NullCreature}
ShadowFloorIntensities == {0, 50}

InitFrame ==
    /\ InitView
    /\ world = OpenWorld
    /\ creaturePosition \in [Creatures -> CreaturePositions]
    /\ maxTextureSize \in MaxTextureSizes
    /\ m_shadowFloorIntensity \in ShadowFloorIntensities

NextFrame ==
    \/ \E rect \in DrawRects : Draw(rect)
    \/ \E isCreature \in BOOLEAN : onTileUpdate(isCreature)
    \/ \E creature \in FrameFollowTargets : followCreature(creature)
    \/ \E pos \in FrameCameraPositions : setCameraPosition(pos)
    \/ \E enable \in BOOLEAN : setDrawLights(enable)
    \/ \E creature \in Creatures, pos \in CreaturePositions : CreatureMoves(creature, pos)

SpecFrame == InitFrame /\ [][NextFrame]_vars

(***************************************************************************)
(* SpecCalc: calcFirstVisibleFloor() and calcLastVisibleFloor() applied to  *)
(* every camera floor, floor lock, multi-floor setting and a family of      *)
(* worlds with tiles above and around the camera column.                    *)
(***************************************************************************)
CalcCameras == {Pos(100, 100, z) : z \in Floors} \cup {InvalidPosition}
CalcLocks == {UINT8_MAX, 0, 5, 7, 12, MAX_Z, MAX_Z + 1, UINT8_MAX - 1}
CalcSlots == {Pos(100, 100, 5), Pos(101, 101, 6), Pos(100, 99, 7), Pos(100, 99, 6),
              Pos(100, 100, 9)}
CalcKinds == {NoTile, 1, 4, 7}

CalcFloors ==
    /\ ~calcResult.done
    /\ calcResult' = [done |-> TRUE, first |-> calcFirstVisibleFloor, last |-> calcLastVisibleFloor]
    /\ UNCHANGED <<envVars, cameraVars, m_lastCameraPosition, m_lockedFirstVisibleFloor,
                   geometryVars, m_drawLights, cacheVars, flagVars, frame, invalidated, skipped,
                   cameraMode, builtFrom, extentVars, m_rectCache, restVars, geometryCall>>

InitCalc ==
    /\ world \in [CalcSlots -> CalcKinds]
    /\ creaturePosition \in [Creatures -> {InvalidPosition}]
    /\ maxTextureSize \in MaxTextureSizes
    /\ m_shadowFloorIntensity = 0
    /\ m_follow = FALSE
    /\ m_followingCreature = NullCreature
    /\ m_customCameraPosition \in CalcCameras
    /\ m_lastCameraPosition = InvalidPosition
    /\ m_lockedFirstVisibleFloor \in CalcLocks
    /\ m_multifloor \in BOOLEAN
    /\ m_viewMode = IF m_multifloor THEN NEAR_VIEW ELSE FAR_VIEW
    /\ m_autoViewMode = FALSE
    /\ m_renderScale = 100
    /\ m_tileSize = TileSizeOf(100)
    /\ m_visibleDimension = DefaultVisibleDimension
    /\ m_drawDimension = DrawDimensionOf(DefaultVisibleDimension)
    /\ m_virtualCenterOffset = VirtualCenterOffsetOf(DrawDimensionOf(DefaultVisibleDimension))
    /\ InitExtent
    /\ InitRest
    /\ m_drawLights = FALSE
    /\ m_mustUpdateVisibleTilesCache = TRUE
    /\ m_mustUpdateVisibleCreaturesCache = TRUE
    /\ m_cachedFirstVisibleFloor = SEA_FLOOR
    /\ m_cachedLastVisibleFloor = SEA_FLOOR
    /\ m_floorMin = 0
    /\ m_floorMax = 0
    /\ m_cachedVisibleTiles = [f \in Floors |-> EmptyFloor]
    /\ frame = NoFrame
    /\ invalidated = TRUE
    /\ skipped = FALSE
    /\ cameraMode = [kind |-> "fixed", creature |-> NullCreature, pos |-> m_customCameraPosition]
    /\ builtFrom = [camera |-> InvalidPosition]
    /\ calcResult = [done |-> FALSE, first |-> 0, last |-> 0]

NextCalc == CalcFloors

SpecCalc == InitCalc /\ [][NextCalc]_vars

(***************************************************************************)
(* SpecGeometry: the geometry operations, with sizes the view rejects and   *)
(* a texture limit that the larger sizes and scales exceed.                 *)
(***************************************************************************)
GeometryDimensions == {<<15, 11>>, <<3, 3>>, <<16, 11>>, <<15, 12>>, <<1, 1>>, <<31, 31>>}
GeometryRenderScales == {100, 200, 25}
GeometryOptimizedSizes == {<<480, 352>>}
GeometryMaxTextureSizes == {1024}
ViewModes == {NEAR_VIEW, MID_VIEW, FAR_VIEW, HUGE_VIEW}

InitGeometry ==
    /\ InitView
    /\ world = OpenWorld
    /\ creaturePosition \in [Creatures -> {InvalidPosition}]
    /\ maxTextureSize \in GeometryMaxTextureSizes
    /\ m_shadowFloorIntensity = 0

NextGeometry ==
    \/ \E rect \in DrawRects : Draw(rect)
    \/ \E pos \in CameraPositions : setCameraPosition(pos)
    \/ \E dimension \in GeometryDimensions : setVisibleDimension(dimension)
    \/ \E scale \in GeometryRenderScales : setRenderScale(scale)
    \/ \E enable \in BOOLEAN : setAutoViewMode(enable)
    \/ \E viewMode \in ViewModes : setViewMode(viewMode)
    \/ \E visibleSize \in GeometryOptimizedSizes : optimizeForSize(visibleSize)
    \/ \E enable \in BOOLEAN : setAntiAliasing(enable)

SpecGeometry == InitGeometry /\ [][NextGeometry]_vars

(***************************************************************************)
(* SpecSweep: the diagonal loops of the rebuild, one diagonal a step, for   *)
(* the draw dimensions of a family of visible dimensions.                   *)
(***************************************************************************)
SweepDimensions == {<<3, 3>>, <<3, 5>>, <<5, 3>>, <<5, 5>>, <<7, 5>>, <<3, 9>>, <<9, 3>>}

\* const uint32 numDiagonals = m_drawDimension.width() + m_drawDimension.height() - 1
NumDiagonals == m_drawDimension[1] + m_drawDimension[2] - 1

\* One turn of the loop over the diagonals of a floor: the cells of the inner loop.
SweepDiagonal ==
    /\ sweep.diagonal < NumDiagonals
    /\ sweep' = [started |-> TRUE,
                 diagonal |-> sweep.diagonal + 1,
                 cells |-> sweep.cells \o DiagonalCells(sweep.diagonal, m_drawDimension[1],
                                                        m_drawDimension[2])]
    /\ UNCHANGED <<envVars, cameraVars, m_lastCameraPosition, m_lockedFirstVisibleFloor,
                   geometryVars, m_drawLights, cacheVars, flagVars, obsVars, extentVars,
                   m_rectCache, geometryCall, m_moveOffset, moved, m_shadowFloorIntensity,
                   shaderVars, followed>>

InitSweep ==
    /\ InitView
    /\ world = OpenWorld
    /\ creaturePosition \in [Creatures -> {InvalidPosition}]
    /\ maxTextureSize \in MaxTextureSizes
    /\ m_shadowFloorIntensity = 0

NextSweep ==
    \/ \E dimension \in SweepDimensions : ~sweep.started /\ setVisibleDimension(dimension)
    \/ SweepDiagonal

SpecSweep == InitSweep /\ [][NextSweep]_vars


(***************************************************************************)
(* SpecMove: a fixed camera shifted by a bounded number of move() calls.    *)
(***************************************************************************)
MaxMoves == 2
MoveCameraPositions == {PA, Pos(1, 100, 7)}
MoveDeltasX == {-64, -32, -20, 20, 32, 64}
MoveDeltasY == {0, 12}

InitMove ==
    /\ InitView
    /\ world = OpenWorld
    /\ creaturePosition \in [Creatures -> {InvalidPosition}]
    /\ maxTextureSize \in MaxTextureSizes
    /\ m_shadowFloorIntensity = 0

NextMove ==
    \/ \E pos \in MoveCameraPositions : moved.calls = <<>> /\ setCameraPosition(pos)
    \/ \E x \in MoveDeltasX, y \in MoveDeltasY : Len(moved.calls) < MaxMoves /\ move(x, y)
    \/ \E rect \in DrawRects : moved.calls # <<>> /\ Draw(rect)

SpecMove == InitMove /\ [][NextMove]_vars


(***************************************************************************)
(* SpecShader: setShader() calls, the clock, and the before-draw hook of    *)
(* the frames.                                                              *)
(***************************************************************************)
Shaders == {NullShader, DefaultMapShader, "wave"}
FadeInTimes == {0, 2}
FadeOutTimes == {-1, 0, 2}

InitShader ==
    /\ InitView
    /\ world = OpenWorld
    /\ creaturePosition \in [Creatures -> {InvalidPosition}]
    /\ maxTextureSize \in MaxTextureSizes
    /\ m_shadowFloorIntensity = 0

NextShader ==
    \/ \E shader \in Shaders, fadein \in FadeInTimes, fadeout \in FadeOutTimes :
          setShader(shader, fadein, fadeout)
    \/ TimePasses
    \/ onBeforeDraw

SpecShader == InitShader /\ [][NextShader]_vars

\* SpecShaderLive: a bounded number of setShader() calls, after which the
\* clock keeps advancing as far as it is followed and frames keep being drawn.
NextShaderLive ==
    \/ \E shader \in Shaders, fadein \in FadeInTimes, fadeout \in FadeOutTimes :
          requested.calls < MaxShaderCalls /\ setShader(shader, fadein, fadeout)
    \/ TimePasses
    \/ onBeforeDraw

SpecShaderLive ==
    /\ InitShader
    /\ [][NextShaderLive]_vars
    /\ WF_vars(TimePasses)
    /\ WF_vars(onBeforeDraw)


(***************************************************************************)
(* SpecScan: calcFirstVisibleFloor() with no floor lock and multi-floor on,  *)
(* over worlds with tiles above the camera, above a cardinal neighbour and  *)
(* above a diagonal neighbour.                                              *)
(***************************************************************************)
ScanCameras == {Pos(100, 100, 7), Pos(100, 100, 8), Pos(100, 100, 9)}
ScanSlots == {Pos(100, 100, 6), Pos(101, 101, 6), Pos(100, 99, 7), Pos(100, 99, 6),
              Pos(99, 99, 7), Pos(99, 99, 6), Pos(100, 100, 8)}

InitScan ==
    /\ InitView
    /\ world \in [ScanSlots -> CalcKinds]
    /\ creaturePosition \in [Creatures -> {InvalidPosition}]
    /\ maxTextureSize \in MaxTextureSizes
    /\ m_shadowFloorIntensity = 0

NextScan ==
    \/ \E pos \in ScanCameras : cameraMode.kind # "fixed" /\ setCameraPosition(pos)
    \/ cameraMode.kind = "fixed" /\ CalcFloors

SpecScan == InitScan /\ [][NextScan]_vars


(***************************************************************************)
(* SpecRect: frames for one destination rect between camera switches,       *)
(* moves and geometry updates.                                              *)
(***************************************************************************)
RectCreaturePositions == {PA}
RectDeltasX == {20, 40}

InitRect ==
    /\ InitView
    /\ world = OpenWorld
    /\ creaturePosition \in [Creatures -> RectCreaturePositions]
    /\ maxTextureSize \in MaxTextureSizes
    /\ m_shadowFloorIntensity = 0

NextRect ==
    \/ \E rect \in DrawRects : Draw(rect)
    \/ \E creature \in Creatures : followCreature(creature)
    \/ \E pos \in CameraPositions : setCameraPosition(pos)
    \/ \E x \in RectDeltasX : Len(moved.calls) < MaxMoves /\ move(x, 0)
    \/ \E scale \in RenderScales : setRenderScale(scale)

SpecRect == InitRect /\ [][NextRect]_vars


(***************************************************************************)
(* The claims.                                                              *)
(***************************************************************************)
\* C1: whatever the camera position (valid on any floor, or invalid), the
\* floor lock, the multi-floor setting and the world, calcFirstVisibleFloor()
\* returns at most what calcLastVisibleFloor() returns, both in [0, MAX_Z].
FirstFloorNotBelowLast ==
    calcResult.done =>
        /\ calcResult.first <= calcResult.last
        /\ calcResult.first \in Floors
        /\ calcResult.last \in Floors

\* The floors were computed with a lock below every floor the camera alone would show.
LockedBelowTheCameraRange ==
    /\ calcResult.done
    /\ m_multifloor
    /\ isValid(getCameraPosition)
    /\ m_lockedFirstVisibleFloor # UINT8_MAX
    /\ m_lockedFirstVisibleFloor > LastFloorOfCamera(getCameraPosition)
    /\ m_lockedFirstVisibleFloor <= MAX_Z

\* C2: a rebuild whose inputs (camera position, geometry, floor lock, world)
\* are those of the rebuild before it leaves every floor's three lists, element
\* for element and in order, and m_floorMin and m_floorMax as they were.
RebuildIsIdempotent ==
    [][(frame'.drawn /\ frame'.rebuilds = 1 /\ builtFrom = RebuildInputs)
         => /\ m_cachedVisibleTiles' = m_cachedVisibleTiles
            /\ m_floorMin' = m_floorMin
            /\ m_floorMax' = m_floorMax]_vars

\* A rebuild was repeated on unchanged inputs, with several tiles in one list.
RepeatedRebuild ==
    /\ frame.drawn
    /\ frame.rebuilds = 1
    /\ frame.repeated
    /\ \E f \in Floors : Len(m_cachedVisibleTiles[f].grounds) >= 2

\* C3: a draw() rebuilds at most once: once when a request arrived since the
\* last completed rebuild and the camera position is valid, not at all when no
\* request arrived; and no other operation touches the cache.
AtMostOneRebuildPerFrame ==
    /\ [](frame.drawn =>
            /\ frame.rebuilds <= 1
            /\ (frame.wasInvalidated /\ frame.cameraValid => frame.rebuilds = 1)
            /\ (~frame.wasInvalidated => frame.rebuilds = 0))
    /\ [][~frame'.drawn => UNCHANGED cacheVars]_vars
    /\ [][(frame'.drawn /\ ~invalidated) => UNCHANGED cacheVars]_vars

\* A frame was drawn with no request pending, over a cache holding tiles.
FrameWithoutRebuild ==
    /\ frame.drawn
    /\ frame.cameraValid
    /\ ~frame.wasInvalidated
    /\ frame.rebuilds = 0
    /\ frame.grounds # <<>>

\* C4: a draw() on a dirty cache and an invalid camera position leaves the
\* lists, the floor bounds, the cached visible floors, the last camera position
\* and both dirty flags alone; the cache then stays dirty until a draw() finds
\* the camera position valid, and that draw() rebuilds.
SkippedRebuildRecovers ==
    /\ [][(frame'.drawn /\ m_mustUpdateVisibleTilesCache /\ ~isValid(getCameraPosition))
            => UNCHANGED <<cacheVars, m_lastCameraPosition, flagVars>>]_vars
    /\ [][(skipped /\ ~(frame'.drawn /\ isValid(getCameraPosition)))
            => (skipped' /\ m_mustUpdateVisibleTilesCache')]_vars
    /\ [][(skipped /\ frame'.drawn /\ isValid(getCameraPosition))
            => /\ frame'.rebuilds = 1
               /\ ~m_mustUpdateVisibleTilesCache'
               /\ m_lastCameraPosition' = getCameraPosition
               /\ builtFrom' = RebuildInputs]_vars

\* A rebuild that follows a skipped one, the cache holding tiles of an earlier rebuild.
RebuildAfterSkip ==
    /\ frame.drawn
    /\ frame.rebuilds = 1
    /\ frame.afterSkip
    /\ frame.hadStale

\* C5: a draw() on an invalid camera position draws nothing beyond the
\* background: no ground, no border, no bottom/top thing.
OnlyBackgroundOnInvalidCamera ==
    (frame.drawn /\ ~frame.cameraValid) =>
        /\ frame.grounds = <<>>
        /\ frame.borders = <<>>
        /\ frame.bottomTops = <<>>

\* C6: a draw() on an invalid camera position runs the floor pass, and neither
\* the creature information pass, nor the light pass, nor the text pass.
NoOverlaysOnInvalidCamera ==
    (frame.drawn /\ ~frame.cameraValid) =>
        /\ frame.background
        /\ ~frame.creatureInformation
        /\ ~frame.light
        /\ ~frame.text

\* A frame on an invalid camera position with the lights on.
InvalidCameraFrameWithLights ==
    /\ frame.drawn
    /\ ~frame.cameraValid
    /\ frame.background
    /\ m_drawLights

NoCoveredTileCached ==
    (frame.drawn /\ frame.rebuilds = 1) =>
        \A f \in Floors : \A list \in {"grounds", "borders", "bottomTops"} :
            \A k \in 1..Len(m_cachedVisibleTiles[f][list]) :
                LET tile == TileKinds[getTile(m_cachedVisibleTiles[f][list][k])]
                IN  ~(m_cachedFirstVisibleFloor \in tile.coveredFor /\ ~tile.hasLight)

\* A rebuild swept a covered tile with no light and cached a covered tile with a light.
CoveredTileSwept ==
    /\ frame.drawn
    /\ frame.rebuilds = 1
    /\ \E pos \in DOMAIN world :
          /\ pos.z >= m_cachedFirstVisibleFloor
          /\ pos.z <= m_cachedLastVisibleFloor
          /\ IsDrawableTile(pos)
          /\ IsSwept(getCameraPosition, pos, pos.z)
          /\ m_cachedFirstVisibleFloor \in TileKinds[getTile(pos)].coveredFor
          /\ ~TileKinds[getTile(pos)].hasLight
    /\ \E f \in Floors : \E k \in 1..Len(m_cachedVisibleTiles[f].bottomTops) :
          m_cachedFirstVisibleFloor
              \in TileKinds[getTile(m_cachedVisibleTiles[f].bottomTops[k])].coveredFor

\* C9: once a rebuild has completed, m_floorMin <= m_floorMax, the cached
\* first visible floor is at most the cached last one, and all four are floors
\* in [0, MAX_Z].
FloorBoundsOrdered ==
    isValid(builtFrom.camera) =>
        /\ m_floorMin <= m_floorMax
        /\ m_cachedFirstVisibleFloor <= m_cachedLastVisibleFloor
        /\ {m_floorMin, m_floorMax, m_cachedFirstVisibleFloor, m_cachedLastVisibleFloor}
               \subseteq Floors

\* A rebuild under a floor lock found tiles only below the camera's floor.
RebuildOnLockedFloor ==
    /\ frame.drawn
    /\ frame.rebuilds = 1
    /\ m_cachedFirstVisibleFloor > getCameraPosition.z
    /\ m_floorMin < m_floorMax

\* C10: after a completed rebuild every floor's lists hold what this rebuild's
\* sweep of that floor added and nothing else, and every floor outside
\* [m_floorMin, m_floorMax] is empty.
NoStaleEntries ==
    (frame.drawn /\ frame.rebuilds = 1) =>
        \A f \in Floors :
            /\ (f < m_floorMin \/ f > m_floorMax) => m_cachedVisibleTiles[f] = EmptyFloor
            /\ m_cachedVisibleTiles[f] =
                   IF f >= m_cachedFirstVisibleFloor /\ f <= m_cachedLastVisibleFloor
                   THEN SweptFloor(AddedTiles(getCameraPosition, f, m_cachedFirstVisibleFloor))
                   ELSE EmptyFloor

\* A rebuild found tiles of an earlier rebuild on a floor it does not sweep.
RebuildOverStaleFloor ==
    /\ frame.drawn
    /\ frame.rebuilds = 1
    /\ frame.hadStale
    /\ \E f \in Floors : m_cachedVisibleTiles[f] # EmptyFloor

\* C11: whenever the view mode is FAR or HUGE, no floor lock is set and the
\* camera position is valid, calcFirstVisibleFloor() returns the camera's floor
\* and calcLastVisibleFloor() returns the same floor.
FarViewIsSingleFloor ==
    (m_viewMode >= FAR_VIEW /\ m_lockedFirstVisibleFloor = UINT8_MAX /\ isValid(getCameraPosition))
        => /\ calcFirstVisibleFloor = getCameraPosition.z
           /\ calcLastVisibleFloor = calcFirstVisibleFloor

\* C15: setVisibleDimension() with a size of even width or height, or below
\* 3x3, changes neither the visible dimension, the draw dimension, the tile
\* size, the scale factor, the aware range, the view mode nor the rect cache,
\* and requests no cache update.
RejectedDimensionKeepsGeometry ==
    [][\A dimension \in GeometryDimensions :
          (/\ \/ dimension[1] % 2 = 0
              \/ dimension[2] % 2 = 0
              \/ (dimension[1] < 3 /\ dimension[2] < 3)
           /\ setVisibleDimension(dimension))
          => UNCHANGED <<m_visibleDimension, m_drawDimension, m_tileSize, m_scaleFactor,
                         m_awareRange, m_viewMode, m_rectCache, flagVars>>]_vars

\* A size was rejected while the rect cache was filled and the tile cache clean.
DimensionRejected ==
    /\ geometryCall = [op |-> "setVisibleDimension", outcome |-> "rejected"]
    /\ m_rectCache.rect # NullRect
    /\ ~m_mustUpdateVisibleTilesCache

\* The buffer of visibleDimension at renderScale exceeds the texture limit on an axis.
BufferExceedsTexture(visibleDimension, renderScale) ==
    \E axis \in 1..2 :
        DrawDimensionOf(visibleDimension)[axis] * TileSizeOf(renderScale) > maxTextureSize

\* C16: a call of setVisibleDimension, setRenderScale, setAutoViewMode,
\* optimizeForSize or setAntiAliasing whose buffer would exceed the maximum
\* texture size on an axis changes neither the visible dimension, the draw
\* dimension, the tile size, the scale factor, the centre offsets, the aware
\* range, the view mode, the multi-floor flag nor the rect cache, and requests
\* no cache update.
AbortedUpdateKeepsGeometry ==
    [][(\/ \E dimension \in GeometryDimensions :
              /\ dimension # m_visibleDimension
              /\ dimension[1] % 2 = 1 /\ dimension[2] % 2 = 1
              /\ dimension[1] >= 3 /\ dimension[2] >= 3
              /\ BufferExceedsTexture(dimension, m_renderScale)
              /\ setVisibleDimension(dimension)
        \/ \E scale \in GeometryRenderScales :
              /\ BufferExceedsTexture(m_visibleDimension, scale)
              /\ setRenderScale(scale)
        \/ /\ BufferExceedsTexture(m_visibleDimension, m_renderScale)
           /\ \/ setAutoViewMode(TRUE)
              \/ \E visibleSize \in GeometryOptimizedSizes : optimizeForSize(visibleSize)
              \/ \E enable \in BOOLEAN : setAntiAliasing(enable))
       => UNCHANGED <<m_visibleDimension, m_drawDimension, m_tileSize, m_scaleFactor,
                      m_virtualCenterOffset, m_visibleCenterOffset, m_awareRange, m_viewMode,
                      m_multifloor, m_rectCache, flagVars>>]_vars

\* updateGeometry() gave up in setAutoViewMode(true) with the rect cache filled.
UpdateAborted ==
    /\ geometryCall = [op |-> "setAutoViewMode", outcome |-> "aborted"]
    /\ m_rectCache.rect # NullRect
    /\ ~m_mustUpdateVisibleTilesCache

\* C18: in every state the tile size is floor(TILE_PIXELS * render scale / 100)
\* and the scale factor is the tile size over TILE_PIXELS.
TileSizeFollowsRenderScale ==
    /\ m_tileSize = (TILE_PIXELS * m_renderScale) \div 100
    /\ m_scaleFactor = <<m_tileSize, TILE_PIXELS>>

\* C19 as stated: the draw dimension is the visible dimension plus 2 on each axis.
DrawDimensionIsVisiblePlusTwo ==
    m_drawDimension = <<m_visibleDimension[1] + 2, m_visibleDimension[2] + 2>>

\* C19, amended: the draw dimension is the visible dimension plus 3 on each
\* axis, after the constructor and after every geometry update.
DrawDimensionIsVisiblePlusThree ==
    m_drawDimension = <<m_visibleDimension[1] + 3, m_visibleDimension[2] + 3>>

\* A geometry update after the constructor's went through.
DimensionChanged ==
    /\ m_visibleDimension = <<3, 3>>
    /\ geometryCall = NoCall
    /\ m_mustUpdateVisibleTilesCache

\* C20 as stated: a frame adds the shadow rectangle at most once, and only
\* while it processes the floor above the camera's, z = camera.z - 1.
ShadowOnlyAboveCamera ==
    frame.drawn =>
        /\ Len(frame.shadows) <= 1
        /\ \A k \in 1..Len(frame.shadows) : frame.shadows[k] = getCameraPosition.z - 1

\* C20, amended: a frame adds the shadow rectangle at most once, only with a
\* shadow floor intensity above 0, and only while it processes the floor below
\* the camera's, z = camera.z + 1.
ShadowOnlyBelowCamera ==
    frame.drawn =>
        /\ Len(frame.shadows) <= 1
        /\ \A k \in 1..Len(frame.shadows) :
              /\ m_shadowFloorIntensity > 0
              /\ frame.shadows[k] = getCameraPosition.z + 1

\* A frame with floors on both sides of the camera's added the shadow.
ShadowAdded ==
    /\ frame.drawn
    /\ frame.shadows # <<>>
    /\ \E k \in 1..Len(frame.floors) : frame.floors[k] = getCameraPosition.z - 1
    /\ \E k \in 1..Len(frame.floors) : frame.floors[k] = getCameraPosition.z + 1

\* C17: every cell <<ix, iy>> the diagonal loops visit lies in the draw
\* dimension, 0 <= ix < width and 0 <= iy < height, no cell is visited twice,
\* and a floor's sweep visits at most width * height cells.
SweepStaysInRectangle ==
    /\ \A k \in 1..Len(sweep.cells) :
          /\ sweep.cells[k][1] >= 0 /\ sweep.cells[k][1] < m_drawDimension[1]
          /\ sweep.cells[k][2] >= 0 /\ sweep.cells[k][2] < m_drawDimension[2]
    /\ \A j, k \in 1..Len(sweep.cells) : j # k => sweep.cells[j] # sweep.cells[k]
    /\ Len(sweep.cells) <= m_drawDimension[1] * m_drawDimension[2]

\* C14: from a fixed camera with a zero sub-tile offset, move(x, 0) followed by
\* move(-x, 0), x a multiple of the tile size, brings the camera position back
\* to the original one and leaves the offset at (0, 0).
MoveThereAndBack ==
    LET n == Len(moved.calls)
    IN  (/\ n >= 2
         /\ ~m_follow
         /\ moved.before[n - 1].offset = <<0, 0>>
         /\ moved.calls[n - 1][2] = 0
         /\ moved.calls[n - 1][1] % TILE_PIXELS = 0
         /\ moved.calls[n] = <<-moved.calls[n - 1][1], 0>>)
        => /\ m_customCameraPosition = moved.before[n - 1].position
           /\ m_moveOffset = <<0, 0>>

\* C14 witness: the camera went two tiles west past column 0 and came back.
MovedThereAndBack ==
    /\ ~m_follow
    /\ moved.calls = <<<<-64, 0>>, <<64, 0>>>>
    /\ moved.before[1].position = Pos(1, 100, 7)
    /\ moved.before[1].offset = <<0, 0>>
    /\ moved.before[2].position.x = UINT16_MAX

\* Two fractions with positive denominators are the same number.
SameFraction(a, b) == a[1] * b[2] = b[1] * a[2]

\* C12 as stated: after setShader(next, fadeIn, fadeOut) with fadeOut > 0 over
\* another active shader, a frame before the fadeOut duration has passed shows
\* the old shader at opacity 1 - t / fadeOut; from the frame where the opacity
\* reaches 0, at t = fadeOut, the shader is next, and the opacity rises
\* linearly to 1 over the fadeIn duration.
FadeSwapsAtZeroOpacity ==
    (hook.ran /\ fade.tracked /\ fade.fadeIn > 0 /\ fade.next # NullShader)
    => IF fade.since < fade.fadeOut
         THEN /\ hook.shader = fade.old
              /\ ~fade.swapped
              /\ SameFraction(hook.opacity, <<fade.fadeOut - fade.since, fade.fadeOut>>)
         ELSE /\ hook.shader = fade.next
              /\ fade.swapped
              /\ SameFraction(hook.opacity,
                              IF fade.since - fade.swapAt >= fade.fadeIn
                                THEN <<1, 1>>
                                ELSE <<fade.since - fade.swapAt, fade.fadeIn>>)

\* C12, amended: a frame up to and at t = fadeOut shows the old shader at
\* opacity 1 - t / fadeOut, so a frame at t = fadeOut shows the old shader at
\* opacity 0; the first frame after fadeOut has passed swaps to next at opacity
\* 0, and from that frame the opacity rises linearly to 1 over the fadeIn
\* duration (fadeIn > 0, next a shader).
FadeSwapsAfterZeroOpacity ==
    (hook.ran /\ fade.tracked /\ fade.fadeIn > 0 /\ fade.next # NullShader)
    => IF fade.since <= fade.fadeOut
         THEN /\ hook.shader = fade.old
              /\ ~fade.swapped
              /\ SameFraction(hook.opacity, <<fade.fadeOut - fade.since, fade.fadeOut>>)
         ELSE /\ hook.shader = fade.next
              /\ fade.swapped
              /\ SameFraction(hook.opacity,
                              IF fade.since - fade.swapAt >= fade.fadeIn
                                THEN <<1, 1>>
                                ELSE <<fade.since - fade.swapAt, fade.fadeIn>>)

\* C12 witness: a frame half way through the fade-in, after a frame at
\* t = fadeOut was skipped and the swap came one tick late.
FadingIn ==
    /\ hook.ran
    /\ fade.tracked
    /\ fade.swapped
    /\ fade.swapAt = fade.fadeOut + 1
    /\ hook.shader = fade.next
    /\ hook.opacity = <<1, 2>>

\* C13: when a setShader call with fadeOut <= 0 returns, the active shader is
\* the shader of the call, no next shader is pending and no fade-out is on,
\* whatever the state before the call.
NoFadeOutSwitchesAtOnce ==
    (shaderCall.made /\ shaderCall.fadeout <= 0)
    => /\ m_shader = shaderCall.shader
       /\ m_nextShader = NullShader
       /\ m_shaderSwitchDone

\* The camera tile and the cardinal neighbours the look passes through.
LookCells(cameraPosition) ==
    {<<0, 0>>} \cup {cell \in {<<-1, 0>>, <<1, 0>>, <<0, -1>>, <<0, 1>>} :
                        isLookPossible(translated(cameraPosition, cell[1], cell[2]))}

\* 1 + the floor of the first view-limiting tile above a cell, 0 when there is none.
BlockerBound(cameraPosition, cell) ==
    LET pos == translated(cameraPosition, cell[1], cell[2])
    IN  WalkUp(pos, pos, 0, isLookPossible(pos))

\* C21: with no floor lock, multi-floor on and a valid camera,
\* calcFirstVisibleFloor() returns the larger of the base floor (0 at or above
\* the sea floor, max(camera.z - underground range, underground floor) below
\* it) and the largest bound 1 + z of the first view-limiting tile above the
\* camera tile or above a cardinal neighbour the look passes through; diagonal
\* neighbours do not count, and the result is at most camera.z.
FirstFloorIsTightestBound ==
    (/\ calcResult.done
     /\ m_lockedFirstVisibleFloor = UINT8_MAX
     /\ m_multifloor
     /\ isValid(getCameraPosition))
    => LET cameraPosition == getCameraPosition
           base == IF cameraPosition.z <= SEA_FLOOR THEN 0
                   ELSE Max(cameraPosition.z - AWARE_UNDEGROUND_FLOOR_RANGE, UNDERGROUND_FLOOR)
       IN  /\ \A cell \in LookCells(cameraPosition) :
                 calcResult.first >= BlockerBound(cameraPosition, cell)
           /\ calcResult.first >= base
           /\ \/ calcResult.first = base
              \/ \E cell \in LookCells(cameraPosition) :
                    calcResult.first = BlockerBound(cameraPosition, cell)
           /\ calcResult.first <= cameraPosition.z

\* C21 witness: nothing above the camera tile; a roof above the diagonal
\* neighbour, which does not count, and a roof above the northern neighbour,
\* which the look passes through and which raises the first floor to the
\* camera's.
RoofOverNeighbourOnly ==
    /\ calcResult.done
    /\ m_lockedFirstVisibleFloor = UINT8_MAX
    /\ m_multifloor
    /\ getCameraPosition = Pos(100, 100, 7)
    /\ BlockerBound(getCameraPosition, <<0, 0>>) = 0
    /\ isLookPossible(Pos(99, 99, 7))
    /\ BlockerBound(getCameraPosition, <<-1, -1>>) = 7
    /\ <<0, -1>> \in LookCells(getCameraPosition)
    /\ BlockerBound(getCameraPosition, <<0, -1>>) = 7
    /\ calcResult.first = 7

\* C22: the first draw() with a valid camera position after followCreature()
\* rebuilds the cache as for a camera that changed position and floor: in that
\* frame the visible-creature list is rebuilt and, with lights on, the ambient
\* light is updated, whatever the camera position was before the switch.
FollowForcesFullRebuild ==
    (frame.drawn /\ frame.cameraValid /\ frame.afterFollow)
    => /\ frame.rebuilds = 1
       /\ frame.floorChanged
       /\ frame.creaturesRebuilt
       /\ m_drawLights => frame.lightUpdated

\* C22 witness: the frame after a switch that left the camera, and every
\* other input, as the last rebuild had them, with lights on.
FollowedToSamePosition ==
    /\ frame.drawn
    /\ frame.cameraValid
    /\ frame.afterFollow
    /\ frame.repeated
    /\ m_drawLights
    /\ frame.creaturesRebuilt
    /\ frame.lightUpdated

\* The sum of the deltas of the move() calls on one axis.
RECURSIVE SumOfDeltas(_, _)
SumOfDeltas(calls, axis) ==
    IF calls = <<>> THEN 0 ELSE Head(calls)[axis] + SumOfDeltas(Tail(calls), axis)

\* The tiles by which the calls have shifted the camera on one axis, given the
\* offset they have left.
CommittedTiles(axis) ==
    (moved.before[1].offset[axis] + SumOfDeltas(moved.calls, axis) - m_moveOffset[axis])
        \div TILE_PIXELS

\* C23: after any sequence of move() calls, per axis, the tile size times the
\* tiles committed to the camera position plus the offset left equals the sum
\* of the deltas (on top of the offset the sequence started with), the offset
\* is less than one tile in magnitude, and a call that shifts the camera
\* position leaves the visibility cache dirty.
NoMovementLost ==
    /\ [](moved.calls # <<>> =>
            /\ \A axis \in {1, 2} :
                  /\ (moved.before[1].offset[axis] + SumOfDeltas(moved.calls, axis)
                        - m_moveOffset[axis]) % TILE_PIXELS = 0
                  /\ m_moveOffset[axis] > -TILE_PIXELS
                  /\ m_moveOffset[axis] < TILE_PIXELS
            /\ m_customCameraPosition =
                  translated(moved.before[1].position, CommittedTiles(1), CommittedTiles(2)))
    /\ [][(moved' # moved /\ m_customCameraPosition' # m_customCameraPosition)
            => m_mustUpdateVisibleTilesCache']_vars

\* C23 witness: two moves of 20 pixels west from a clean cache: the second
\* commits one tile, leaves 8 pixels and marks the cache dirty.
TileCommittedWithRest ==
    /\ moved.calls = <<<<-20, 0>>, <<-20, 0>>>>
    /\ ~moved.before[2].dirty
    /\ moved.before[2].offset = <<-20, 0>>
    /\ m_moveOffset = <<-8, 0>>
    /\ m_customCameraPosition = translated(moved.before[2].position, -1, 0)
    /\ m_mustUpdateVisibleTilesCache

\* C24: after every draw(rect) the cached source rect, draw offset and
\* stretch factors are what calcFramebufferSource(rect.size()) yields for the
\* camera mode, the move offset and the geometry of that moment.
RectCacheNeverStale ==
    frame.drawn => m_rectCache = FilledRectCache(m_rectCache.rect)

\* C25: the opacity the before-draw hook passes on lies in [0, 1] in every
\* frame, for any setShader() calls and any time between the frames.
OpacityInUnitRange ==
    hook.ran => (hook.opacity[1] >= 0 /\ hook.opacity[1] <= hook.opacity[2])

\* C26: once no further setShader() call is made, while the clock advances and
\* frames are drawn, the active shader eventually is, and stays, the shader of
\* the last call.
LastShaderRequestWins ==
    \A shader \in Shaders : <>[](requested.shader = shader) => <>[](m_shader = shader)

(***************************************************************************)
(* Consistency of the model's two computations of the sweep.                *)
(***************************************************************************)
\* The two computations of the sweep agree on every floor.
SweepOrderAgrees ==
    isValid(getCameraPosition) =>
        \A iz \in Floors :
            SweepTiles(getCameraPosition, iz) = SweepTilesByLoop(getCameraPosition, 0, iz)

====
